---- MODULE Spec2Model ----
(***************************************************************************)
(* Chunking and sampling engine of app/utils.py: section identification,   *)
(* section-aware splitting, the passage filter, the semantic sampler and   *)
(* the loaders that run them as a pipeline; and the ingestion and query    *)
(* endpoints of app/main.py with the collection cleanup of app/qa_chain.py.*)
(*                                                                         *)
(* Strings are run-length encoded: a text is a sequence of runs <<c, n>>,  *)
(* n >= 1 copies of the character c, adjacent runs having different        *)
(* characters.  Every string operation of the source (len, strip, split,   *)
(* slicing, join, re.match) is computed on that encoding, exactly.         *)
(* Relevance scores are kept as integers, score * 100.                     *)
(***************************************************************************)
EXTENDS Integers, Sequences, FiniteSets, TLC

\* ------------------------------------------------------------------------
\* Characters and character classes (Python str / re semantics, ASCII)
\* ------------------------------------------------------------------------
AlphaU == <<"A","B","C","D","E","F","G","H","I","J","K","L","M",
            "N","O","P","Q","R","S","T","U","V","W","X","Y","Z">>

AlphaL == <<"a","b","c","d","e","f","g","h","i","j","k","l","m",
            "n","o","p","q","r","s","t","u","v","w","x","y","z">>

Upper == {AlphaU[i] : i \in 1..Len(AlphaU)}

Lower == {AlphaL[i] : i \in 1..Len(AlphaL)}

Digit == {"0","1","2","3","4","5","6","7","8","9"}

\* [IVXLCDM]
Roman == {"I","V","X","L","C","D","M"}

\* what str.strip(), str.split() and the regex class \s treat as white space
WS == {" ", "\n", "\t", "\r"}

\* [A-Za-z\s&-]
NameClass == Upper \cup Lower \cup WS \cup {"&", "-"}

\* [A-Z\s&-]
CapsClass == Upper \cup WS \cup {"&", "-"}

NL == <<"\n", 1>>

\* ------------------------------------------------------------------------
\* String operations on run-length encoded texts
\* ------------------------------------------------------------------------
Min(a, b) == IF a <= b THEN a ELSE b

Max(a, b) == IF a >= b THEN a ELSE b

RECURSIVE StrLen(_)
\* len(s), summed by halves to keep the evaluation shallow on long texts
StrLen(s) ==
    IF s = <<>> THEN 0
    ELSE IF Len(s) = 1 THEN s[1][2]
    ELSE StrLen(SubSeq(s, 1, Len(s) \div 2))
         + StrLen(SubSeq(s, Len(s) \div 2 + 1, Len(s)))

\* s + t
Cat(s, t) ==
    IF s = <<>> THEN t
    ELSE IF t = <<>> THEN s
    ELSE IF s[Len(s)][1] = t[1][1]
         THEN SubSeq(s, 1, Len(s) - 1)
              \o << <<t[1][1], s[Len(s)][2] + t[1][2]>> >> \o Tail(t)
         ELSE s \o t

RECURSIVE DropWhile(_, _)
\* s without its longest prefix of characters of the class cls
DropWhile(s, cls) ==
    IF s = <<>> THEN <<>>
    ELSE IF s[1][1] \in cls THEN DropWhile(Tail(s), cls) ELSE s

RECURSIVE DropEndWhile(_, _)
\* s without its longest suffix of characters of the class cls
DropEndWhile(s, cls) ==
    IF s = <<>> THEN <<>>
    ELSE IF s[Len(s)][1] \in cls
         THEN DropEndWhile(SubSeq(s, 1, Len(s) - 1), cls) ELSE s

\* s.strip()
Strip(s) == DropEndWhile(DropWhile(s, WS), WS)

RECURSIVE Take(_, _)
\* s[:k]
Take(s, k) ==
    IF s = <<>> \/ k <= 0 THEN <<>>
    ELSE IF Len(s) = 1 THEN << <<s[1][1], Min(s[1][2], k)>> >>
    ELSE LET left == SubSeq(s, 1, Len(s) \div 2)
             used == StrLen(left)
         IN IF k <= used THEN Take(left, k)
            ELSE left \o Take(SubSeq(s, Len(s) \div 2 + 1, Len(s)), k - used)

RECURSIVE Drop(_, _)
\* s[k:]
Drop(s, k) ==
    IF s = <<>> \/ k <= 0 THEN s
    ELSE IF s[1][2] > k THEN << <<s[1][1], s[1][2] - k>> >> \o Tail(s)
    ELSE Drop(Tail(s), k - s[1][2])

\* the first character of a non-empty text
First(s) == s[1][1]

\* len(s.split()): the number of maximal runs of non-white-space characters
TokenCount(s) ==
    Cardinality({i \in 1..Len(s) :
        /\ s[i][1] \notin WS
        /\ (i = 1 \/ s[i - 1][1] \in WS)})

\* s.count(' ')
CountSpaces(s) ==
    LET RECURSIVE Cnt(_)
        Cnt(t) == IF t = <<>> THEN 0
                  ELSE (IF t[1][1] = " " THEN t[1][2] ELSE 0) + Cnt(Tail(t))
    IN Cnt(s)

RECURSIVE JoinLines(_)
\* '\n'.join(lines)
JoinLines(lines) ==
    IF lines = <<>> THEN <<>>
    ELSE IF Len(lines) = 1 THEN lines[1]
    ELSE Cat(Cat(lines[1], <<NL>>), JoinLines(Tail(lines)))

RECURSIVE SplitLinesAcc(_, _)
\* text.split('\n'), cur being the line read so far
SplitLinesAcc(s, cur) ==
    IF s = <<>> THEN <<cur>>
    ELSE IF s[1][1] = "\n"
         THEN <<cur>> \o SplitLinesAcc(Drop(s, 1), <<>>)
         ELSE SplitLinesAcc(Tail(s), Cat(cur, <<s[1]>>))

\* text.split('\n')
SplitLines(s) == SplitLinesAcc(s, <<>>)

RECURSIVE Expand(_)
\* the characters of s, one by one
Expand(s) ==
    IF s = <<>> THEN <<>>
    ELSE <<s[1][1]>> \o Expand(Drop(s, 1))

\* s.startswith(lit), lit a sequence of characters
StartsWith(s, lit) == Expand(Take(s, Len(lit))) = lit

\* c.lower()
LowerChar(c) ==
    IF c \in Upper THEN AlphaL[CHOOSE i \in 1..Len(AlphaU) : AlphaU[i] = c] ELSE c

\* s.lower(), as a sequence of characters
LowerChars(s) == LET e == Expand(s) IN [i \in 1..Len(e) |-> LowerChar(e[i])]

\* ------------------------------------------------------------------------
\* SECTION_PATTERNS: re.match(pattern, line.strip()) for each pattern.
\* The argument s is already stripped, so the leading ^\s* matches nothing.
\* ------------------------------------------------------------------------

\* [A-Z][A-Za-z\s&-]+ (or [A-Z][A-Z\s&-]+) at the start of s
MatchesCapWord(s, cls) ==
    /\ s # <<>>
    /\ First(s) \in Upper
    /\ Drop(s, 1) # <<>>
    /\ First(Drop(s, 1)) \in cls

\* does ([IVXLCDM]+|\d+) match at the start of s?
HasNumeral(s) == s # <<>> /\ First(s) \in Roman \cup Digit

\* what follows the longest ([IVXLCDM]+|\d+) at the start of s
AfterNumeral(s) ==
    IF First(s) \in Roman THEN DropWhile(s, Roman) ELSE DropWhile(s, Digit)

\* \.\s*([A-Z][cls]+) at the start of s
MatchesDotTitle(s, cls) ==
    /\ s # <<>>
    /\ First(s) = "."
    /\ MatchesCapWord(DropWhile(Drop(s, 1), WS), cls)

\* insurance[0]: ^\s*(?:SECTION\s+)?([IVXLCDM]+|\d+)\.\s*([A-Z][A-Z\s&-]+)(?:\s*[-...]\s*)?
InsNumbered(s) ==
    LET kw   == <<"S","E","C","T","I","O","N">>
        rest == Drop(s, Len(kw))
        t    == IF StartsWith(s, kw) /\ rest # <<>> /\ First(rest) \in WS
                THEN DropWhile(rest, WS) ELSE s
    IN HasNumeral(t) /\ MatchesDotTitle(AfterNumeral(t), CapsClass)

\* insurance[1]: ^\s*([A-Z][A-Z\s&-]{10,})\s*$
InsAllCaps(s) ==
    /\ s # <<>>
    /\ First(s) \in Upper
    /\ \A i \in 1..Len(s) : s[i][1] \in CapsClass
    /\ StrLen(s) >= 11

\* [\s:]?\s*([A-Z][A-Za-z\s&-]+) at the start of s
MatchesSepTitle(s) ==
    LET t == IF s # <<>> /\ First(s) = ":" THEN Drop(s, 1) ELSE s
    IN MatchesCapWord(DropWhile(t, WS), NameClass)

\* ^\s*<kw>\s+(<numeral>)[\s:]?\s*([A-Z][A-Za-z\s&-]+), the numeral being
\* [IVXLCDM]+|\d+ when roman, \d+ otherwise.  A roman numeral may give back
\* characters to the title, which the regex engine finds by backtracking.
MatchesKeyword(s, kw, roman) ==
    LET rest == Drop(s, Len(kw))
        t    == DropWhile(rest, WS)
        nRom == StrLen(t) - StrLen(DropWhile(t, Roman))
    IN /\ StartsWith(s, kw)
       /\ rest # <<>>
       /\ First(rest) \in WS
       /\ t # <<>>
       /\ \/ First(t) \in Digit /\ MatchesSepTitle(DropWhile(t, Digit))
          \/ roman /\ \E k \in 1..nRom : MatchesSepTitle(Drop(t, k))

\* insurance[2]
InsPart(s) == MatchesKeyword(s, <<"P","a","r","t">>, TRUE)

\* insurance[3]
InsArticle(s) == MatchesKeyword(s, <<"A","r","t","i","c","l","e">>, FALSE)

\* insurance[4]
InsChapter(s) == MatchesKeyword(s, <<"C","h","a","p","t","e","r">>, FALSE)

EmailKeys == {<<"F","r","o","m">>, <<"T","o">>, <<"C","c">>, <<"B","c","c">>,
              <<"S","u","b","j","e","c","t">>, <<"D","a","t","e">>}

\* email[0]: ^(From|To|Cc|Bcc|Subject|Date):\s*(.+)
EmailHeaderLine(s) ==
    \E kw \in EmailKeys :
        /\ StartsWith(s, kw \o <<":">>)
        /\ Drop(s, Len(kw) + 1) # <<>>

\* email[1]: ^[-=_]{3,}\s*$
EmailSeparator(s) ==
    /\ StrLen(s) >= 3
    /\ \A i \in 1..Len(s) : s[i][1] \in {"-", "=", "_"}

\* email[2]: ^>\s*(.+)
EmailQuote(s) == s # <<>> /\ First(s) = ">" /\ StrLen(s) >= 2

\* general[0]: ^\s*([A-Z][A-Za-z\s&-]{5,})\s*$
GenHeader(s) ==
    /\ s # <<>>
    /\ First(s) \in Upper
    /\ \A i \in 1..Len(s) : s[i][1] \in NameClass
    /\ StrLen(s) >= 6

\* general[1]: ^\s*\d+\.\s*([A-Z][A-Za-z\s&-]+)
GenNumbered(s) ==
    /\ s # <<>>
    /\ First(s) \in Digit
    /\ MatchesDotTitle(DropWhile(s, Digit), NameClass)

\* SECTION_PATTERNS.get(doc_type, SECTION_PATTERNS['general']) applied to a
\* stripped line: does any pattern of the list match?
MatchesAnyPattern(s, doc_type) ==
    IF doc_type = "insurance"
    THEN InsNumbered(s) \/ InsAllCaps(s) \/ InsPart(s) \/ InsArticle(s) \/ InsChapter(s)
    ELSE IF doc_type = "email"
    THEN EmailHeaderLine(s) \/ EmailSeparator(s) \/ EmailQuote(s)
    ELSE GenHeader(s) \/ GenNumbered(s)

\* ------------------------------------------------------------------------
\* Documents: page_content and the metadata keys the engine reads or writes.
\* A key that is absent from the dict is has_title = FALSE (section_title),
\* "absent" (chunk_type) or -1 (chunk_index, section_start).
\* ------------------------------------------------------------------------
Document(text, meta) == [page_content |-> text, metadata |-> meta]

\* the metadata a loader attaches, after doc.metadata['doc_type'] = doc_type
BaseMeta(doc_type) ==
    [doc_type |-> doc_type, has_title |-> FALSE, section_title |-> <<>>,
     chunk_type |-> "absent", chunk_index |-> -1, section_start |-> -1]

\* chunk.metadata.get('section_title', '')
SectionTitleOf(doc) ==
    IF doc.metadata.has_title THEN doc.metadata.section_title ELSE <<>>

\* ------------------------------------------------------------------------
\* UniversalDocumentSplitter
\* ------------------------------------------------------------------------

\* _has_sufficient_context, and the filter of load_and_split
HasSufficientContext(text) == StrLen(Strip(text)) > 10 /\ TokenCount(text) > 2

\* a section is kept when len(section_text.strip()) > 50
SectionLongEnough(lines) == StrLen(Strip(JoinLines(lines))) > 50

\* sections.append((current_title, section_text, section_start)), when long enough
EmitSection(sections, cur, title, start) ==
    IF SectionLongEnough(cur)
    THEN Append(sections, [title |-> title, text |-> JoinLines(cur), start |-> start])
    ELSE sections

RECURSIVE IdentifyLoop(_, _, _, _, _, _, _)
\* the loop of _identify_sections from line i (1-based) on, and its final section
IdentifyLoop(lines, doc_type, i, sections, cur, title, start) ==
    IF i > Len(lines)
    THEN IF cur # <<>> THEN EmitSection(sections, cur, title, start) ELSE sections
    ELSE LET line      == lines[i]
             is_header == MatchesAnyPattern(Strip(line), doc_type)
         IN IF is_header /\ cur # <<>>
            THEN IdentifyLoop(lines, doc_type, i + 1,
                              EmitSection(sections, cur, title, start),
                              <<line>>, Strip(line), i - 1)
            ELSE IdentifyLoop(lines, doc_type, i + 1, sections,
                              Append(cur, line), title, start)

\* _identify_sections(text, doc_type)
IdentifySections(text, doc_type) ==
    IdentifyLoop(SplitLines(text), doc_type, 1, <<>>, <<>>, <<>>, 0)

\* base_metadata.copy() updated with the keys of a section chunk
SectionMeta(base, title, start, index, chunk_type) ==
    [base EXCEPT !.has_title = TRUE, !.section_title = title,
                 !.section_start = start, !.chunk_index = index,
                 !.chunk_type = chunk_type]

\* f"{section_title}\n\n{text}" if section_title else text
EnhancedContent(title, text) ==
    IF title # <<>> THEN Cat(Cat(title, << <<"\n", 2>> >>), text) ELSE text

\* the test written with < for <=
IsSmallSectionStrict(text, chunk_size) == 2 * StrLen(text) < 3 * chunk_size

\* len(section_text) <= self.chunk_size * 1.5
IsSmallSection(text, chunk_size) == 2 * StrLen(text) <= 3 * chunk_size

\* the indices i (1-based) of the pieces that pass _has_sufficient_context
KeptIndices(pieces) ==
    LET RECURSIVE Keep(_)
        Keep(i) == IF i > Len(pieces) THEN <<>>
                   ELSE (IF HasSufficientContext(pieces[i]) THEN <<i>> ELSE <<>>)
                        \o Keep(i + 1)
    IN Keep(1)

\* _split_section; pieces is what splitter.split_text(section_text) returned
SplitSection(sec, base, chunk_size, pieces) ==
    IF IsSmallSection(sec.text, chunk_size)
    THEN << Document(EnhancedContent(sec.title, sec.text),
                     SectionMeta(base, sec.title, sec.start, -1, "complete_section")) >>
    ELSE LET kept == KeptIndices(pieces)
         IN [k \in 1..Len(kept) |->
                Document(EnhancedContent(sec.title, pieces[kept[k]]),
                         SectionMeta(base, sec.title, sec.start, kept[k] - 1,
                                     "section_part"))]

\* _fallback_split; pieces is what splitter.split_documents([document]) cut
FallbackSplit(doc, pieces) ==
    LET kept == KeptIndices(pieces)
    IN [k \in 1..Len(kept) |->
           Document(pieces[kept[k]],
                    [doc.metadata EXCEPT !.chunk_index = kept[k] - 1,
                                         !.chunk_type = "fallback_split"])]

\* ------------------------------------------------------------------------
\* _split_email_document
\* ------------------------------------------------------------------------
RECURSIVE ToText(_)
\* the text made of the characters chars
ToText(chars) ==
    IF chars = <<>> THEN <<>>
    ELSE Cat(<< <<chars[1], 1>> >>, ToText(Tail(chars)))

\* c in s
Contains(s, c) == \E i \in 1..Len(s) : s[i][1] = c

RECURSIVE BeforeFirst(_, _)
\* s.split(c, 1)[0]
BeforeFirst(s, c) ==
    IF s = <<>> \/ s[1][1] = c THEN <<>>
    ELSE <<s[1]>> \o BeforeFirst(Tail(s), c)

\* s.split(c, 1)[1], for s containing c
AfterFirst(s, c) == Drop(s, StrLen(BeforeFirst(s, c)) + 1)

HeaderKeys == {<<"f","r","o","m">>, <<"t","o">>, <<"s","u","b","j","e","c","t">>,
               <<"d","a","t","e">>, <<"c","c">>, <<"b","c","c">>}

\* headers[key] = value on a dict that keeps insertion order
DictSet(headers, key, value) ==
    IF \E j \in 1..Len(headers) : headers[j].key = key
    THEN [j \in 1..Len(headers) |->
             IF headers[j].key = key THEN [key |-> key, value |-> value]
             ELSE headers[j]]
    ELSE Append(headers, [key |-> key, value |-> value])

RECURSIVE EmailHeaderLoop(_, _, _, _)
\* the header loop of _split_email_document from line i (1-based) on:
\* the headers found and body_start
EmailHeaderLoop(lines, i, headers, body_start) ==
    IF i > Len(lines) THEN [headers |-> headers, body_start |-> body_start]
    ELSE LET line == lines[i]
             key  == LowerChars(Strip(BeforeFirst(line, ":")))
         IN IF Contains(line, ":") /\ i - 1 < 20 /\ key \in HeaderKeys
            THEN EmailHeaderLoop(lines, i + 1,
                     DictSet(headers, key, Strip(AfterFirst(line, ":"))), i)
            ELSE EmailHeaderLoop(lines, i + 1, headers, body_start)

\* key.title(), for a lower-case key
TitleCase(key) ==
    [j \in 1..Len(key) |->
        IF j = 1 THEN AlphaU[CHOOSE i \in 1..Len(AlphaL) : AlphaL[i] = key[1]]
        ELSE key[j]]

RECURSIVE HeaderLines(_)
\* the f"{key.title()}: {value}\n" lines of header_text
HeaderLines(headers) ==
    IF headers = <<>> THEN <<>>
    ELSE Cat(Cat(Cat(ToText(TitleCase(headers[1].key) \o <<":", " ">>),
                     headers[1].value), <<NL>>),
             HeaderLines(Tail(headers)))

\* "Email Headers:\n" followed by the header lines
HeaderText(headers) ==
    Cat(ToText(<<"E","m","a","i","l"," ","H","e","a","d","e","r","s",":","\n">>),
        HeaderLines(headers))

RECURSIVE Decimal(_)
\* str(n), n >= 0, as a sequence of characters
Decimal(n) ==
    LET digits == <<"0","1","2","3","4","5","6","7","8","9">>
    IN IF n < 10 THEN <<digits[n + 1]>>
       ELSE Decimal(n \div 10) \o <<digits[(n % 10) + 1]>>

EmailHeadersTitle == ToText(<<"E","m","a","i","l"," ","H","e","a","d","e","r","s">>)

EmailBodyTitle == ToText(<<"E","m","a","i","l"," ","B","o","d","y">>)

\* f'Email Body Part {i+1}', i counted from 0
EmailBodyPartTitle(i) ==
    Cat(EmailBodyTitle, ToText(<<" ","P","a","r","t"," ">> \o Decimal(i + 1)))

\* _split_email_document; pieces is what splitter.split_text(body) returned
SplitEmailDocument(doc, chunk_size, pieces) ==
    LET lines   == SplitLines(doc.page_content)
        found   == EmailHeaderLoop(lines, 1, <<>>, 0)
        headers == found.headers
        body    == JoinLines(SubSeq(lines, found.body_start + 1, Len(lines)))
        base    == doc.metadata
        head    == IF headers # <<>>
                   THEN << Document(HeaderText(headers),
                               [base EXCEPT !.has_title = TRUE,
                                            !.section_title = EmailHeadersTitle,
                                            !.chunk_type = "email_headers"]) >>
                   ELSE <<>>
        bodies  == IF Strip(body) = <<>> THEN <<>>
                   ELSE IF StrLen(body) <= chunk_size
                   THEN << Document(body,
                               [base EXCEPT !.has_title = TRUE,
                                            !.section_title = EmailBodyTitle,
                                            !.chunk_type = "email_body"]) >>
                   ELSE [i \in 1..Len(pieces) |->
                            Document(pieces[i],
                               [base EXCEPT !.has_title = TRUE,
                                            !.section_title = EmailBodyPartTitle(i - 1),
                                            !.chunk_type = "email_body",
                                            !.chunk_index = i - 1])]
    IN head \o bodies

\* does _split_email_document call the text splitter on this document?
EmailBodyIsSplit(doc, chunk_size) ==
    LET lines == SplitLines(doc.page_content)
        found == EmailHeaderLoop(lines, 1, <<>>, 0)
        body  == JoinLines(SubSeq(lines, found.body_start + 1, Len(lines)))
    IN Strip(body) # <<>> /\ StrLen(body) > chunk_size

\* the tiers with a chunk_overlap that drops at the 50000 threshold
GetSmartSplitterUneven(content_length, doc_type) ==
    IF content_length > 100000 THEN [chunk_size |-> 3500, chunk_overlap |-> 500]
    ELSE IF content_length > 50000 THEN [chunk_size |-> 3000, chunk_overlap |-> 300]
    ELSE IF content_length > 25000 THEN [chunk_size |-> 2500, chunk_overlap |-> 350]
    ELSE IF content_length > 10000 THEN [chunk_size |-> 2000, chunk_overlap |-> 300]
    ELSE IF content_length > 5000 THEN [chunk_size |-> 1800, chunk_overlap |-> 250]
    ELSE [chunk_size |-> 1500, chunk_overlap |-> 200]

\* get_smart_splitter: (chunk_size, chunk_overlap) for a content length; the
\* doc_type is handed on to the splitter and plays no part in the sizes
GetSmartSplitter(content_length, doc_type) ==
    IF content_length > 100000 THEN [chunk_size |-> 3500, chunk_overlap |-> 500]
    ELSE IF content_length > 50000 THEN [chunk_size |-> 3000, chunk_overlap |-> 400]
    ELSE IF content_length > 25000 THEN [chunk_size |-> 2500, chunk_overlap |-> 350]
    ELSE IF content_length > 10000 THEN [chunk_size |-> 2000, chunk_overlap |-> 300]
    ELSE IF content_length > 5000 THEN [chunk_size |-> 1800, chunk_overlap |-> 250]
    ELSE [chunk_size |-> 1500, chunk_overlap |-> 200]

\* ------------------------------------------------------------------------
\* calculate_semantic_scores
\* ------------------------------------------------------------------------

\* utils.py has no "import numpy": the name np that cosine_similarity reads
\* is unbound, and every call of cosine_similarity raises NameError
NumpyImported == FALSE

\* the text of a chunk that is sent for embedding
ChunkText(doc) ==
    LET text == Strip(Take(doc.page_content, 500))
    IN IF StrLen(text) < 50 THEN Strip(doc.page_content) ELSE text

\* the query that stands in for "query = None" (every call the model makes)
DefaultQuery ==
    ToText(<<"i","m","p","o","r","t","a","n","t"," ","t","e","r","m","s",
             " ","c","o","n","d","i","t","i","o","n","s"," ","c","o","v",
             "e","r","a","g","e"," ","b","e","n","e","f","i","t","s"," ",
             "r","e","q","u","i","r","e","m","e","n","t","s"," ","p","r",
             "o","c","e","d","u","r","e","s"," ","d","e","f","i","n","i",
             "t","i","o","n","s">>)

\* all_texts with the query behind the chunk texts
AllTextsQueryLast(chunks) ==
    [i \in 1..Len(chunks) |-> ChunkText(chunks[i])] \o <<DefaultQuery>>

\* all_texts = [query] + chunk_texts, for a call without a query
AllTexts(chunks) ==
    <<DefaultQuery>> \o [i \in 1..Len(chunks) |-> ChunkText(chunks[i])]

\* the length score without its cap at 1.0
LengthScoreUncapped(text) == TokenCount(text)

\* min(len(text.split()) / 100, 1.0), times 100
LengthScore(text) == Min(TokenCount(text), 100)

\* the except branch: one length score per chunk
FallbackScores(chunks) == [i \in 1..Len(chunks) |-> LengthScore(ChunkText(chunks[i]))]

\* max(similarity, 0.0) for each chunk embedding, cosines[i] being the cosine
\* similarity (times 100) of the i-th chunk embedding with the query embedding
ClampedScores(cosines) == [i \in 1..Len(cosines) |-> Max(cosines[i], 0)]

\* calculate_semantic_scores from the end of "await get_embeddings" on.
\* outcome is "fail" when get_embeddings raised, "empty" when it returned no
\* vector at all (embeddings[0] raises IndexError inside the try), "ok" or
\* "short" when it returned the query vector and the chunk vectors whose
\* cosine similarities with it are cosines
CalculateSemanticScores(chunks, outcome, cosines) ==
    IF outcome \in {"fail", "empty"} THEN FallbackScores(chunks)
    ELSE IF cosines = <<>> THEN <<>>
    ELSE IF ~NumpyImported THEN FallbackScores(chunks)
    ELSE ClampedScores(cosines)

\* ------------------------------------------------------------------------
\* semantic_chunk_sampling.  Chunks are named by their position in the
\* input list; e.num / e.den is the sort key of an entry e.
\* ------------------------------------------------------------------------
Entry(item, num, den) == [item |-> item, num |-> num, den |-> den]

\* a's key is strictly greater than b's
KeyGreater(a, b) == a.num * b.den > b.num * a.den

RECURSIVE InsertDesc(_, _)
\* x put into the descending list sorted, behind the entries not smaller than it
InsertDesc(sorted, x) ==
    IF sorted = <<>> THEN <<x>>
    ELSE IF KeyGreater(x, sorted[1]) THEN <<x>> \o sorted
    ELSE <<sorted[1]>> \o InsertDesc(Tail(sorted), x)

RECURSIVE SortDescFrom(_, _)
SortDescFrom(sorted, rest) ==
    IF rest = <<>> THEN sorted
    ELSE SortDescFrom(InsertDesc(sorted, rest[1]), Tail(rest))

\* a descending sort that puts equal keys in the reverse of their order
SortDescTiesReversed(entries) ==
    SortDescFrom(<<>>, [i \in 1..Len(entries) |-> entries[Len(entries) + 1 - i]])

\* list.sort(key=..., reverse=True): descending and stable
SortDesc(entries) == SortDescFrom(<<>>, entries)

RECURSIVE SeqSum(_)
SeqSum(q) == IF q = <<>> THEN 0 ELSE q[1] + SeqSum(Tail(q))

\* the indices of 1..n that satisfy Test, ascending
Filter(n, Test(_)) ==
    LET RECURSIVE F(_)
        F(i) == IF i > n THEN <<>>
                ELSE (IF Test(i) THEN <<i>> ELSE <<>>) \o F(i + 1)
    IN F(1)

\* scored_chunks = list(zip(chunks, semantic_scores)): its length
ScoredCount(chunks, scores) == Min(Len(chunks), Len(scores))

\* the keys of section_groups, in the order the dict first saw them
GroupTitles(chunks, n) ==
    LET first == Filter(n, LAMBDA i :
                     /\ SectionTitleOf(chunks[i]) # <<>>
                     /\ \A j \in 1..(i - 1) :
                            SectionTitleOf(chunks[j]) # SectionTitleOf(chunks[i]))
    IN [k \in 1..Len(first) |-> SectionTitleOf(chunks[first[k]])]

\* section_groups[title]: the scored chunks of a section, in input order
GroupMembers(chunks, n, title) ==
    Filter(n, LAMBDA i : SectionTitleOf(chunks[i]) = title)

\* standalone_chunks holding every scored chunk, titled or not
StandaloneChunksAll(chunks, n) == [i \in 1..n |-> i]

\* standalone_chunks: the scored chunks with no (or an empty) section_title
StandaloneChunks(chunks, n) ==
    Filter(n, LAMBDA i : SectionTitleOf(chunks[i]) = <<>>)

\* chunks_per_section without the division by the number of sections
ChunksPerSectionUndivided(max_chunks, nsections) == Max(2, max_chunks)

\* chunks_per_section = max(2, max_chunks // max(len(section_groups), 1))
ChunksPerSection(max_chunks, nsections) == Max(2, max_chunks \div Max(nsections, 1))

\* section_avg_scores left in the order the sections were met
SectionAvgScoresUnsorted(chunks, scores) ==
    LET n      == ScoredCount(chunks, scores)
        titles == GroupTitles(chunks, n)
    IN [k \in 1..Len(titles) |->
           LET members == GroupMembers(chunks, n, titles[k])
           IN Entry(members,
                    SeqSum([m \in 1..Len(members) |-> scores[members[m]]]),
                    Len(members))]

\* section_avg_scores after its sort: one entry per section, the item being
\* the section's members, the key its average score
SectionAvgScores(chunks, scores) ==
    LET n      == ScoredCount(chunks, scores)
        titles == GroupTitles(chunks, n)
    IN SortDesc([k \in 1..Len(titles) |->
           LET members == GroupMembers(chunks, n, titles[k])
           IN Entry(members,
                    SeqSum([m \in 1..Len(members) |-> scores[members[m]]]),
                    Len(members))])

\* the chunks of members left in input order
SortByScoreUnsorted(members, scores) == members

\* the chunks of members sorted by score, best first
SortByScore(members, scores) ==
    LET sorted == SortDesc([m \in 1..Len(members) |->
                      Entry(members[m], scores[members[m]], 1)])
    IN [m \in 1..Len(sorted) |-> sorted[m].item]

RECURSIVE SectionWalk(_, _, _, _, _, _)
\* the loop over section_avg_scores from section k on
SectionWalk(sections, k, selected, scores, max_chunks, per_section) ==
    IF k > Len(sections) THEN selected
    ELSE LET members == SortByScore(sections[k].item, scores)
             limit   == Min(Len(members), per_section)
             now     == selected \o SubSeq(members, 1, limit)
         IN IF Len(now) >= max_chunks THEN now
            ELSE SectionWalk(sections, k + 1, now, scores, max_chunks, per_section)

\* selected_chunks after "if section_groups:"
SelectFromSections(chunks, scores, max_chunks) ==
    LET sections == SectionAvgScores(chunks, scores)
    IN SectionWalk(sections, 1, <<>>, scores, max_chunks,
                   ChunksPerSection(max_chunks, Len(sections)))

\* the standalone chunks added in input order
AddStandaloneUnsorted(selected, chunks, scores, max_chunks) ==
    LET standalone == StandaloneChunks(chunks, ScoredCount(chunks, scores))
        remaining  == max_chunks - Len(selected)
    IN IF remaining > 0 /\ standalone # <<>>
       THEN selected \o SubSeq(standalone, 1, Min(remaining, Len(standalone)))
       ELSE selected

\* the standalone chunks added with one slot too few
AddStandaloneOneShort(selected, chunks, scores, max_chunks) ==
    LET standalone == StandaloneChunks(chunks, ScoredCount(chunks, scores))
        remaining  == max_chunks - Len(selected)
    IN IF remaining > 0 /\ standalone # <<>>
       THEN selected \o SubSeq(SortByScore(standalone, scores), 1,
                                Min(remaining - 1, Len(standalone)))
       ELSE selected

\* selected_chunks after the standalone chunks were added
AddStandalone(selected, chunks, scores, max_chunks) ==
    LET standalone == StandaloneChunks(chunks, ScoredCount(chunks, scores))
        remaining  == max_chunks - Len(selected)
    IN IF remaining > 0 /\ standalone # <<>>
       THEN selected \o SubSeq(SortByScore(standalone, scores), 1,
                                Min(remaining, Len(standalone)))
       ELSE selected

\* the score the final selection finds for chunk i: that of the first scored
\* chunk equal to it (Document equality compares content and metadata)
RescoreOf(i, chunks, scores) ==
    scores[CHOOSE j \in 1..ScoredCount(chunks, scores) :
              /\ chunks[j] = chunks[i]
              /\ \A h \in 1..(j - 1) : chunks[h] # chunks[i]]

\* the final selection left out
FinalSelectionSkipped(selected, chunks, scores, max_chunks) == selected

\* the final selection cutting one chunk too many
FinalSelectionOneShort(selected, chunks, scores, max_chunks) ==
    IF Len(selected) > max_chunks
    THEN LET sorted == SortDesc([k \in 1..Len(selected) |->
                          Entry(selected[k], RescoreOf(selected[k], chunks, scores), 1)])
         IN [k \in 1..(max_chunks - 1) |-> sorted[k].item]
    ELSE selected

\* selected_chunks after "if len(selected_chunks) > max_chunks:"
FinalSelection(selected, chunks, scores, max_chunks) ==
    IF Len(selected) > max_chunks
    THEN LET sorted == SortDesc([k \in 1..Len(selected) |->
                          Entry(selected[k], RescoreOf(selected[k], chunks, scores), 1)])
         IN [k \in 1..max_chunks |-> sorted[k].item]
    ELSE selected

\* ------------------------------------------------------------------------
\* detect_file_type and the loaders of load_and_split
\* ------------------------------------------------------------------------

\* the selected chunks returned with their score written into their metadata
ReturnedDocsScored(chunks, scores, selected) ==
    [k \in 1..Len(selected) |->
        [chunks[selected[k]] EXCEPT !.metadata.chunk_index = scores[selected[k]]]]

\* "[chunk for chunk, score in ...]" and "return selected_chunks": the
\* chunks themselves, the scores dropped
ReturnedDocs(chunks, scores, selected) ==
    [k \in 1..Len(selected) |-> chunks[selected[k]]]

\* lit in s.lower(), for a lower-case lit with no letter doubled
ContainsLower(s, lit) ==
    \E i \in 1..(Len(s) - Len(lit) + 1) :
        \A k \in 1..Len(lit) :
            /\ LowerChar(s[i + k - 1][1]) = lit[k]
            /\ (1 < k /\ k < Len(lit)) => s[i + k - 1][2] = 1

MarkFrom == <<"f","r","o","m",":">>

MarkTo == <<"t","o",":">>

MarkSubject == <<"s","u","b","j","e","c","t",":">>

MarkDate == <<"d","a","t","e",":">>

\* detect_file_type for the extensions .pdf, .docx, .eml and .txt
DetectFileType(ext, content) ==
    IF ext = "pdf" THEN "pdf"
    ELSE IF ext = "docx" THEN "docx"
    ELSE IF ext = "eml" THEN "email"
    ELSE IF \E m \in {MarkFrom, MarkTo, MarkSubject, MarkDate} :
                ContainsLower(Take(content, 1000), m)
         THEN "email"
         ELSE "text"

\* load_email_document raises unless the content shows an email marker
\* (email.message_from_string is never reached: the name email is unbound)
EmailLoads(content) ==
    \E m \in {MarkFrom, MarkTo, MarkSubject} : ContainsLower(content, m)

\* doc_type that load_and_split assigns for a file type
DocTypeOf(file_type) ==
    IF file_type = "pdf" THEN "insurance"
    ELSE IF file_type = "email" THEN "email"
    ELSE "general"

\* the "Filter minimal content" step, with its fallback to raw_docs
FilterMinimal(docs) ==
    LET kept == Filter(Len(docs), LAMBDA i :
                    /\ StrLen(Strip(docs[i].page_content)) > 20
                    /\ CountSpaces(Strip(docs[i].page_content)) > 3)
    IN IF kept = <<>> THEN docs ELSE [k \in 1..Len(kept) |-> docs[kept[k]]]

\* load_and_split without its "Filter chunks" step
SemanticFilteredOff(docs) == docs

\* the "Filter chunks" step of load_and_split
SemanticFiltered(docs) ==
    LET kept == Filter(Len(docs), LAMBDA i : HasSufficientContext(docs[i].page_content))
    IN [k \in 1..Len(kept) |-> docs[kept[k]]]

\* ------------------------------------------------------------------------
\* Bounds and the inputs of the model
\* ------------------------------------------------------------------------

\* most lines of a source file
MaxLines == 2

\* most chunks the text splitter of langchain returns for one text
MaxPieces == 2

\* most chunks handed to semantic_chunk_sampling directly
MaxPassages == 5

\* largest max_chunks of a direct semantic_chunk_sampling call
MaxCount == 4

\* largest max_chunks of a load_document_semantic call
MaxLoadCount == 2

\* most chunks handed to calculate_semantic_scores in the scoring runs
MaxScored == 2

\* how far around each threshold of get_smart_splitter the lengths are taken
MaxTierGap == 2

\* most chunks handed to semantic_chunk_sampling in the diversity runs
MaxDiverse == 4

\* largest max_chunks of the diversity runs
MaxDiverseCount == 3

\* most chunks handed to semantic_chunk_sampling in the runs with an
\* unconstrained provider
MaxProvided == 3

\* largest max_chunks of those runs
MaxProvidedCount == 2

\* most ingest_document calls of a run
MaxIngests == 2

\* "1. AA": a numbered header of the insurance and of the general patterns
LineNumbered == << <<"1", 1>>, <<".", 1>>, <<" ", 1>>, <<"A", 2>> >>

\* an all-capitals header of both pattern lists
LineCaps == << <<"A", 11>> >>

\* 59 characters in 3 words, no header
LineLong == << <<"a", 30>>, <<" ", 1>>, <<"b", 25>>, <<" ", 1>>, <<"c", 2>> >>

\* 60 characters in one word
LineOneWord == << <<"a", 60>> >>

\* "aa bb"
LineShort == << <<"a", 2>>, <<" ", 1>>, <<"b", 2>> >>

\* 2250 characters in 4 words, 1.5 times the smallest chunk_size: a section
\* of this line alone is the longest small section, and with one more line
\* it is split
LineBig == << <<"a", 2240>>, <<" ", 1>>, <<"b", 2>>, <<" ", 1>>, <<"c", 2>>,
              <<" ", 1>>, <<"d", 3>> >>

\* "From: aa"
LineFrom == ToText(<<"F","r","o","m",":"," ">>) \o << <<"a", 2>> >>

\* "1. A" and 56 small letters: a numbered header of the general patterns,
\* longer than 50 characters; no header of the insurance patterns
LineTitled == << <<"1", 1>>, <<".", 1>>, <<" ", 1>>, <<"A", 1>>, <<"a", 56>> >>

LineLib ==
    {LineNumbered, LineCaps, LineLong, LineOneWord, LineShort, LineBig,
     LineFrom, LineTitled}

\* the contents of a file: 1..MaxLines lines
FileContents ==
    UNION {{JoinLines(ls) : ls \in [1..n -> LineLib]} : n \in 1..MaxLines}

\* what PyPDFLoader yields: the pages of a file, none for an empty PDF; the
\* page breaks fall between lines
RECURSIVE PagesOf(_, _)
PagesOf(lines, breaks) ==
    IF lines = <<>> THEN <<>>
    ELSE LET n == IF \E k \in 1..(Len(lines) - 1) : k \in breaks
                  THEN CHOOSE k \in 1..(Len(lines) - 1) :
                           k \in breaks /\ \A h \in 1..(k - 1) : h \notin breaks
                  ELSE Len(lines)
         IN <<JoinLines(SubSeq(lines, 1, n))>>
            \o PagesOf(SubSeq(lines, n + 1, Len(lines)),
                       {b - n : b \in {c \in breaks : c > n}})

PdfContents ==
    {<<>>} \cup
    UNION {{PagesOf(ls, br) : ls \in [1..n -> LineLib], br \in SUBSET (1..(n - 1))}
           : n \in 1..MaxLines}

FileExtensions == {"pdf", "docx", "eml", "txt"}

\* a chunk the text splitter may return that passes the passage filter
PieceGood == << <<"a", 4>>, <<" ", 1>>, <<"b", 4>>, <<" ", 1>>, <<"c", 4>> >>

\* a chunk the text splitter may return that fails it
PieceBad == << <<"a", 12>>, <<" ", 1>>, <<"b", 2>> >>

\* what RecursiveCharacterTextSplitter may return for a text
SplitOutcomes == UNION {[1..n -> {PieceGood, PieceBad}] : n \in 0..MaxPieces}

\* section titles and texts of the chunks of a direct sampling call
TitleA == << <<"A", 6>> >>

TitleB == << <<"B", 6>> >>

\* 3 words: length score 3
TextLow == PieceGood

\* 5 words: length score 5
TextHigh == << <<"a", 4>>, <<" ", 1>>, <<"b", 4>>, <<" ", 1>>, <<"c", 4>>,
               <<" ", 1>>, <<"d", 2>>, <<" ", 1>>, <<"e", 2>> >>

PassageKinds ==
    {Document(text, [BaseMeta("general") EXCEPT !.has_title = (title # <<>>),
                                                !.section_title = title,
                                                !.chunk_type = "complete_section"])
        : text \in {TextLow, TextHigh}, title \in {<<>>, TitleA, TitleB}}

\* The sampler reads a title only to compare it with other titles, so the
\* lists are taken up to the renaming of sections: of two titled sections,
\* TitleA is the one met first.
FirstMetOrder(list) ==
    \A i \in 1..Len(list) :
        SectionTitleOf(list[i]) = TitleB =>
            \E j \in 1..(i - 1) : SectionTitleOf(list[j]) = TitleA

PassageLists ==
    {list \in UNION {[1..n -> PassageKinds] : n \in 0..MaxPassages} :
        FirstMetOrder(list)}

\* 101 one-letter words, 201 characters: more words than the score counts
TextMany == [i \in 1..201 |-> IF i % 2 = 1 THEN <<"a", 1>> ELSE <<" ", 1>>]

\* 505 characters in 3 words, 2 of them within the first 500 characters
TextWide == << <<"a", 498>>, <<" ", 1>>, <<"b", 3>>, <<" ", 1>>, <<"c", 2>> >>

\* 515 characters in 4 words behind 480 blanks: the first 500 characters hold
\* 20 characters in 3 words once stripped
TextPadded == << <<" ", 480>>, <<"a", 5>>, <<" ", 1>>, <<"b", 5>>, <<" ", 1>>,
                 <<"c", 20>>, <<" ", 1>>, <<"d", 2>> >>

\* the chunks of the scoring runs
ScoredKinds ==
    {Document(text, [BaseMeta("general") EXCEPT !.has_title = (title # <<>>),
                                                !.section_title = title,
                                                !.chunk_type = "complete_section"])
        : text \in {TextLow, TextMany, TextWide, TextPadded},
          title \in {<<>>, TitleA}}

ScoredLists == UNION {[1..n -> ScoredKinds] : n \in 0..MaxScored}

\* 1 word: length score 1
TextOne == << <<"a", 4>> >>

\* 4 words: length score 4
TextFour == << <<"a", 4>>, <<" ", 1>>, <<"b", 4>>, <<" ", 1>>, <<"c", 4>>,
               <<" ", 1>>, <<"d", 2>> >>

\* the chunks of the diversity runs: three levels of score
DiverseKinds ==
    {Document(text, [BaseMeta("general") EXCEPT !.has_title = (title # <<>>),
                                                !.section_title = title,
                                                !.chunk_type = "complete_section"])
        : text \in {TextOne, TextFour, TextHigh}, title \in {<<>>, TitleA, TitleB}}

DiverseLists ==
    {list \in UNION {[1..n -> DiverseKinds] : n \in 0..MaxDiverse} :
        FirstMetOrder(list)}

\* the chunk lists of the runs with an unconstrained provider
ProvidedLists ==
    {list \in UNION {[1..n -> PassageKinds] : n \in 0..MaxProvided} :
        FirstMetOrder(list)}

\* the thresholds of get_smart_splitter
TierBounds == {5000, 10000, 25000, 50000, 100000}

\* total lengths at and around every threshold, a short one and a long one
TierLengths ==
    {b + d : b \in TierBounds, d \in (0 - MaxTierGap)..MaxTierGap} \cup {10, 200000}

\* a file content of n characters, n >= 10: plain, or with an email header line
TierContents(n) ==
    {<< <<"a", n>> >>, Cat(Cat(LineFrom, <<NL>>), << <<"b", n - 9>> >>)}

\* the answers of the embedding provider to a batch of n chunks and a query:
\* the cosine similarities (times 100) of the n chunk vectors with the query
EmbedAnswers(n) == {[i \in 1..n |-> 40 * (i % 3) - 30]}

\* ------------------------------------------------------------------------
\* State
\* ------------------------------------------------------------------------
VARIABLES
    pc,              \* where the call is
    file_ext,        \* extension of the source file
    file_pages,      \* what the file holds: its pages (pdf) or its content
    raw_docs,        \* filtered_docs of load_and_split
    chunk_size,      \* self.chunk_size of the splitter
    chunk_overlap,   \* self.chunk_overlap of the splitter
    doc_idx,         \* the document split_documents is at (1-based)
    sections,        \* result of _identify_sections for that document
    sec_idx,         \* the section _split_single_document is at (1-based)
    all_chunks,      \* all_chunks of split_documents
    chunks,          \* argument chunks of semantic_chunk_sampling
    max_chunks,      \* argument max_chunks
    embed_outcome,   \* how get_embeddings ended: "none" (not called), "ok", "fail",
                     \* "cancelled", "short" or "empty"
    embed_cosines,   \* cosine similarities of the vectors it returned
    embed_calls,     \* the batches of texts get_embeddings was called with, in order
    semantic_scores, \* semantic_scores
    walk_selected,   \* selected_chunks after the section walk (positions in chunks)
    selected_chunks, \* selected_chunks at the return (positions in chunks)
    final_docs,      \* the list semantic_chunk_sampling returned
    error,           \* the exception that left load_document_semantic, or "none"
    loader,          \* the function called: "document" (load_document_semantic),
                     \* "pdf", "docx", "email" (load_..._semantic), "none" (the sampler)
    temp_download,   \* temp_download of the loader
    temp_file,       \* the temporary file of a download: "none", "exists", "deleted"
    requests,        \* the ingest_document calls made so far, each with its position
    document_store,  \* document_store of main.py
    collections,     \* the names of the collections the vector store holds
    next_collection, \* the name the next collection gets (names are never reused)
    background,      \* per collection, how far the cleanup_fn handed to
                     \* background_tasks is: "none", "scheduled", "thread", "done"
    query_result     \* per document id, how the last query_documents call ended

vars == <<pc, file_ext, file_pages, raw_docs, chunk_size, chunk_overlap, doc_idx,
          sections, sec_idx, all_chunks, chunks, max_chunks, embed_outcome,
          embed_cosines, embed_calls, semantic_scores, walk_selected, selected_chunks,
          final_docs, error, loader, temp_download, temp_file, requests,
          document_store, collections, next_collection, background, query_result>>

loadVars == <<file_ext, file_pages, raw_docs, chunk_size, chunk_overlap, doc_idx,
              sections, sec_idx, all_chunks>>

sampleVars == <<embed_outcome, embed_cosines, embed_calls, semantic_scores, walk_selected, selected_chunks,
                final_docs>>

downloadVars == <<loader, temp_download, temp_file>>

serviceVars == <<requests, document_store, collections, next_collection, background,
                 query_result>>

\* the variables of the chunking and sampling engine
engineVars == <<pc, chunks, max_chunks, error, loadVars, sampleVars, downloadVars>>

\* the document ids of the requests
DocIds == {"d1", "d2"}

\* document_store.get(document_id): status "absent" stands for a missing key,
\* collection_name 0 for a record without that key
StoreRecord(status, collection_name) ==
    [status |-> status, collection_name |-> collection_name]

\* main.py after its import: document_store = {}, and an empty vector store
ServiceAtStart ==
    /\ requests = <<>>
    /\ document_store = [d \in DocIds |-> StoreRecord("absent", 0)]
    /\ collections = {}
    /\ next_collection = 1
    /\ background = [n \in 1..MaxIngests |-> "none"]
    /\ query_result = [d \in DocIds |-> "none"]

\* no call of the engine is under way
EngineAtRest ==
    /\ pc = "service"
    /\ chunks = <<>> /\ max_chunks = 0
    /\ file_ext = "none" /\ file_pages = <<>> /\ raw_docs = <<>>
    /\ chunk_size = 0 /\ chunk_overlap = 0 /\ doc_idx = 0
    /\ sections = <<>> /\ sec_idx = 0 /\ all_chunks = <<>>
    /\ embed_outcome = "none" /\ embed_cosines = <<>> /\ semantic_scores = <<>>
    /\ embed_calls = <<>>
    /\ walk_selected = <<>> /\ selected_chunks = <<>> /\ final_docs = <<>>
    /\ error = "none"
    /\ loader = "none" /\ temp_download = FALSE /\ temp_file = "none"

\* the web service right after its start
InitService == EngineAtRest /\ ServiceAtStart

\* a direct call semantic_chunk_sampling(chunks, max_chunks)
InitSample ==
    /\ pc = "sample"
    /\ chunks \in PassageLists
    /\ max_chunks \in 0..MaxCount
    /\ file_ext = "none" /\ file_pages = <<>> /\ raw_docs = <<>>
    /\ chunk_size = 0 /\ chunk_overlap = 0 /\ doc_idx = 0
    /\ sections = <<>> /\ sec_idx = 0 /\ all_chunks = <<>>
    /\ embed_outcome = "none" /\ embed_cosines = <<>> /\ semantic_scores = <<>>
    /\ embed_calls = <<>>
    /\ walk_selected = <<>> /\ selected_chunks = <<>> /\ final_docs = <<>>
    /\ error = "none"
    /\ loader = "none" /\ temp_download = FALSE /\ temp_file = "none"
    /\ ServiceAtStart

\* a call semantic_chunk_sampling(chunks, max_chunks) on chunks whose texts
\* exercise every branch of the text preparation and of the length score
InitScore ==
    /\ pc = "sample"
    /\ chunks \in ScoredLists
    /\ max_chunks \in 0..1
    /\ file_ext = "none" /\ file_pages = <<>> /\ raw_docs = <<>>
    /\ chunk_size = 0 /\ chunk_overlap = 0 /\ doc_idx = 0
    /\ sections = <<>> /\ sec_idx = 0 /\ all_chunks = <<>>
    /\ embed_outcome = "none" /\ embed_cosines = <<>> /\ semantic_scores = <<>>
    /\ embed_calls = <<>>
    /\ walk_selected = <<>> /\ selected_chunks = <<>> /\ final_docs = <<>>
    /\ error = "none"
    /\ loader = "none" /\ temp_download = FALSE /\ temp_file = "none"
    /\ ServiceAtStart

\* a call semantic_chunk_sampling(chunks, max_chunks) on chunks of three
\* levels of score
InitDiverse ==
    /\ pc = "sample"
    /\ chunks \in DiverseLists
    /\ max_chunks \in 1..MaxDiverseCount
    /\ file_ext = "none" /\ file_pages = <<>> /\ raw_docs = <<>>
    /\ chunk_size = 0 /\ chunk_overlap = 0 /\ doc_idx = 0
    /\ sections = <<>> /\ sec_idx = 0 /\ all_chunks = <<>>
    /\ embed_outcome = "none" /\ embed_cosines = <<>> /\ semantic_scores = <<>>
    /\ embed_calls = <<>>
    /\ walk_selected = <<>> /\ selected_chunks = <<>> /\ final_docs = <<>>
    /\ error = "none"
    /\ loader = "none" /\ temp_download = FALSE /\ temp_file = "none"
    /\ ServiceAtStart

\* a call semantic_chunk_sampling(chunks, max_chunks) whose embedding
\* provider is not held to answer with one vector per text
InitProvider ==
    /\ pc = "sample"
    /\ chunks \in ProvidedLists
    /\ max_chunks \in 0..MaxProvidedCount
    /\ file_ext = "none" /\ file_pages = <<>> /\ raw_docs = <<>>
    /\ chunk_size = 0 /\ chunk_overlap = 0 /\ doc_idx = 0
    /\ sections = <<>> /\ sec_idx = 0 /\ all_chunks = <<>>
    /\ embed_outcome = "none" /\ embed_cosines = <<>> /\ semantic_scores = <<>>
    /\ embed_calls = <<>>
    /\ walk_selected = <<>> /\ selected_chunks = <<>> /\ final_docs = <<>>
    /\ error = "none"
    /\ loader = "none" /\ temp_download = FALSE /\ temp_file = "none"
    /\ ServiceAtStart

\* a call load_document_semantic(path, max_chunks) on a one-page file whose
\* length lies at or around a threshold of get_smart_splitter
InitTiers ==
    /\ pc = "load"
    /\ file_ext \in FileExtensions
    /\ \E n \in TierLengths : \E c \in TierContents(n) : file_pages = <<c>>
    /\ max_chunks = 1
    /\ raw_docs = <<>> /\ chunk_size = 0 /\ chunk_overlap = 0 /\ doc_idx = 0
    /\ sections = <<>> /\ sec_idx = 0 /\ all_chunks = <<>> /\ chunks = <<>>
    /\ embed_outcome = "none" /\ embed_cosines = <<>> /\ semantic_scores = <<>>
    /\ embed_calls = <<>>
    /\ walk_selected = <<>> /\ selected_chunks = <<>> /\ final_docs = <<>>
    /\ error = "none"
    /\ loader = "document" /\ temp_download = FALSE /\ temp_file = "none"
    /\ ServiceAtStart

\* a call load_document_semantic(path, max_chunks) on an existing local file
InitLoad ==
    /\ pc = "load"
    /\ file_ext \in FileExtensions
    /\ file_pages \in IF file_ext = "pdf" THEN PdfContents
                      ELSE {<<c>> : c \in FileContents}
    /\ max_chunks \in 1..MaxLoadCount
    /\ raw_docs = <<>> /\ chunk_size = 0 /\ chunk_overlap = 0 /\ doc_idx = 0
    /\ sections = <<>> /\ sec_idx = 0 /\ all_chunks = <<>> /\ chunks = <<>>
    /\ embed_outcome = "none" /\ embed_cosines = <<>> /\ semantic_scores = <<>>
    /\ embed_calls = <<>>
    /\ walk_selected = <<>> /\ selected_chunks = <<>> /\ final_docs = <<>>
    /\ error = "none"
    /\ loader = "document" /\ temp_download = FALSE /\ temp_file = "none"
    /\ ServiceAtStart

\* the loaders, and the suffix of the temporary file of each: that of
\* load_document_semantic comes from the answer's content type or from the URL
Loaders == {"document", "pdf", "docx", "email"}

SuffixesOf(ld) ==
    IF ld = "pdf" THEN {"pdf"}
    ELSE IF ld = "docx" THEN {"docx"}
    ELSE IF ld = "email" THEN {"eml"}
    ELSE FileExtensions

\* a call of one of the four loaders on a URL
InitDownload ==
    /\ pc = "download"
    /\ loader \in Loaders
    /\ file_ext \in SuffixesOf(loader)
    /\ file_pages \in IF file_ext = "pdf" THEN PdfContents
                      ELSE {<<c>> : c \in FileContents}
    /\ max_chunks = 1
    /\ raw_docs = <<>> /\ chunk_size = 0 /\ chunk_overlap = 0 /\ doc_idx = 0
    /\ sections = <<>> /\ sec_idx = 0 /\ all_chunks = <<>> /\ chunks = <<>>
    /\ embed_outcome = "none" /\ embed_cosines = <<>> /\ semantic_scores = <<>>
    /\ embed_calls = <<>>
    /\ walk_selected = <<>> /\ selected_chunks = <<>> /\ final_docs = <<>>
    /\ error = "none"
    /\ temp_download = FALSE /\ temp_file = "none"
    /\ ServiceAtStart

\* ------------------------------------------------------------------------
\* load_document_semantic: load_and_split
\* ------------------------------------------------------------------------

\* the finally block of load_document_semantic: the temporary file is
\* removed on every way out
CleanUpFinally(ld, td, tf) ==
    IF ld = "document" /\ td /\ tf = "exists" THEN "deleted" ELSE tf

\* "if temp_download and file_path.exists(): os.remove(file_path)" of
\* load_pdf_semantic, load_docx_semantic and load_email_semantic: a statement
\* that follows "await run_in_threadpool(load_and_split)"
CleanUpAfterSplit(ld, td, tf) ==
    IF ld \in {"pdf", "docx", "email"} /\ td /\ tf = "exists" THEN "deleted" ELSE tf

\* the download of a URL source: the request fails, or the answer is written
\* to a temporary file
Download ==
    /\ pc = "download"
    /\ \/ /\ pc' = "raised"
          /\ error' = "download_failed"
          /\ UNCHANGED <<temp_download, temp_file>>
       \/ /\ pc' = "load"
          /\ error' = error
          /\ temp_download' = TRUE
          /\ temp_file' = "exists"
    /\ UNCHANGED <<chunks, max_chunks, loader>>
    /\ UNCHANGED loadVars
    /\ UNCHANGED sampleVars
    /\ UNCHANGED serviceVars

\* the content of the file, as the single-file loaders read it
FileContent == IF file_pages = <<>> THEN <<>> ELSE file_pages[1]

FileType ==
    IF loader \in {"pdf", "docx", "email"} THEN loader
    ELSE DetectFileType(file_ext, FileContent)

\* raw_docs, with metadata['doc_type'] set; <<>> also stands for a loader
\* that raised
LoadedDocs ==
    IF FileType = "email" /\ ~EmailLoads(FileContent) THEN <<>>
    ELSE [i \in 1..Len(file_pages) |->
             Document(file_pages[i], BaseMeta(DocTypeOf(FileType)))]

\* total_length = sum(len(doc.page_content) for doc in filtered_docs)
TotalLength(docs) == SeqSum([i \in 1..Len(docs) |-> StrLen(docs[i].page_content)])

\* load_and_split up to the construction of the splitter
LoadDocuments ==
    /\ pc = "load"
    /\ IF LoadedDocs = <<>>
       THEN /\ pc' = "raised"
            /\ error' = "processing_failed"
            /\ temp_file' = CleanUpFinally(loader, temp_download, temp_file)
            /\ UNCHANGED <<raw_docs, chunk_size, chunk_overlap, doc_idx>>
       ELSE LET filtered == IF loader \in {"docx", "email"} THEN LoadedDocs
                            ELSE FilterMinimal(LoadedDocs)
                splitter == GetSmartSplitter(TotalLength(filtered),
                                             DocTypeOf(FileType))
            IN /\ raw_docs' = filtered
               /\ chunk_size' = splitter.chunk_size
               /\ chunk_overlap' = splitter.chunk_overlap
               /\ doc_idx' = 1
               /\ pc' = "split"
               /\ error' = error
               /\ temp_file' = temp_file
    /\ UNCHANGED <<file_ext, file_pages, sections, sec_idx, all_chunks, chunks,
                   max_chunks>>
    /\ UNCHANGED sampleVars
    /\ UNCHANGED <<loader, temp_download>>
    /\ UNCHANGED serviceVars

\* the document split_documents is at
CurrentDoc == raw_docs[doc_idx]

\* _split_single_document on an email: _split_email_document
SplitEmail ==
    /\ pc = "split"
    /\ doc_idx <= Len(raw_docs)
    /\ CurrentDoc.metadata.doc_type = "email"
    /\ \E pieces \in IF EmailBodyIsSplit(CurrentDoc, chunk_size)
                      THEN SplitOutcomes ELSE {<<>>} :
           all_chunks' = all_chunks \o SplitEmailDocument(CurrentDoc, chunk_size, pieces)
    /\ doc_idx' = doc_idx + 1
    /\ UNCHANGED <<pc, file_ext, file_pages, raw_docs, chunk_size, chunk_overlap,
                   sections, sec_idx, chunks, max_chunks, error>>
    /\ UNCHANGED sampleVars
    /\ UNCHANGED downloadVars
    /\ UNCHANGED serviceVars

\* _split_single_document on any other document: _identify_sections
IdentifyDocSections ==
    /\ pc = "split"
    /\ doc_idx <= Len(raw_docs)
    /\ CurrentDoc.metadata.doc_type # "email"
    /\ sections' = IdentifySections(CurrentDoc.page_content,
                                    CurrentDoc.metadata.doc_type)
    /\ sec_idx' = 1
    /\ pc' = "sections"
    /\ UNCHANGED <<file_ext, file_pages, raw_docs, chunk_size, chunk_overlap,
                   doc_idx, all_chunks, chunks, max_chunks, error>>
    /\ UNCHANGED sampleVars
    /\ UNCHANGED downloadVars
    /\ UNCHANGED serviceVars

\* "if not sections: return self._fallback_split(document)"
FallbackSplitDoc ==
    /\ pc = "sections"
    /\ sections = <<>>
    /\ \E pieces \in SplitOutcomes :
           all_chunks' = all_chunks \o FallbackSplit(CurrentDoc, pieces)
    /\ doc_idx' = doc_idx + 1
    /\ pc' = "split"
    /\ UNCHANGED <<file_ext, file_pages, raw_docs, chunk_size, chunk_overlap,
                   sections, sec_idx, chunks, max_chunks, error>>
    /\ UNCHANGED sampleVars
    /\ UNCHANGED downloadVars
    /\ UNCHANGED serviceVars

\* one round of "for section_title, section_text, start_pos in sections"
SplitNextSection ==
    /\ pc = "sections"
    /\ sec_idx <= Len(sections)
    /\ \E pieces \in IF IsSmallSection(sections[sec_idx].text, chunk_size)
                      THEN {<<>>} ELSE SplitOutcomes :
           all_chunks' = all_chunks \o SplitSection(sections[sec_idx],
                                         CurrentDoc.metadata, chunk_size, pieces)
    /\ sec_idx' = sec_idx + 1
    /\ doc_idx' = IF sec_idx = Len(sections) THEN doc_idx + 1 ELSE doc_idx
    /\ pc' = IF sec_idx = Len(sections) THEN "split" ELSE "sections"
    /\ UNCHANGED <<file_ext, file_pages, raw_docs, chunk_size, chunk_overlap,
                   sections, chunks, max_chunks, error>>
    /\ UNCHANGED sampleVars
    /\ UNCHANGED downloadVars
    /\ UNCHANGED serviceVars

\* the test of an empty result never taken
NoUsableContentIgnored(docs) == FALSE

\* "if not split_docs:", before "raise Exception("No content extracted ...")"
NoUsableContent(docs) == docs = <<>>

\* the end of load_and_split: the chunk filter, then "if not split_docs: raise"
\* and the call of semantic_chunk_sampling
FinishSplit ==
    /\ pc = "split"
    /\ doc_idx > Len(raw_docs)
    /\ LET filtered == SemanticFiltered(all_chunks)
           removed  == CleanUpAfterSplit(loader, temp_download, temp_file)
       IN IF NoUsableContent(filtered)
          THEN /\ pc' = "raised" /\ error' = "no_content" /\ chunks' = chunks
               /\ temp_file' = CleanUpFinally(loader, temp_download, removed)
          ELSE /\ pc' = "sample" /\ error' = error /\ chunks' = filtered
               /\ temp_file' = removed
    /\ UNCHANGED <<max_chunks>>
    /\ UNCHANGED loadVars
    /\ UNCHANGED sampleVars
    /\ UNCHANGED <<loader, temp_download>>
    /\ UNCHANGED serviceVars

\* ------------------------------------------------------------------------
\* semantic_chunk_sampling
\* ------------------------------------------------------------------------

\* the test written with < for <=
WithinLimitStrict(list, limit) == Len(list) < limit

\* the test "len(chunks) <= max_chunks" that opens semantic_chunk_sampling
WithinLimit(list, limit) == Len(list) <= limit

\* "if len(chunks) <= max_chunks: return chunks"
ReturnUnchanged ==
    /\ pc = "sample"
    /\ WithinLimit(chunks, max_chunks)
    /\ final_docs' = chunks
    /\ selected_chunks' = [i \in 1..Len(chunks) |-> i]
    /\ pc' = "returned"
    /\ UNCHANGED <<chunks, max_chunks, error, embed_outcome, embed_cosines,
                   semantic_scores, walk_selected>>
    /\ UNCHANGED embed_calls
    /\ UNCHANGED loadVars
    /\ temp_file' = CleanUpFinally(loader, temp_download, temp_file)
    /\ UNCHANGED <<loader, temp_download>>
    /\ UNCHANGED serviceVars

\* calculate_semantic_scores up to "await get_embeddings(all_texts)"
RequestEmbeddings ==
    /\ pc = "sample"
    /\ ~WithinLimit(chunks, max_chunks)
    /\ embed_calls' = Append(embed_calls, AllTexts(chunks))
    /\ pc' = "embedding"
    /\ UNCHANGED <<chunks, max_chunks, error, embed_outcome, embed_cosines,
                   semantic_scores, walk_selected, selected_chunks, final_docs>>
    /\ UNCHANGED loadVars
    /\ UNCHANGED downloadVars
    /\ UNCHANGED serviceVars

\* get_embeddings raises; the except branch scores the chunks
EmbeddingsFail ==
    /\ pc = "embedding"
    /\ embed_outcome' = "fail"
    /\ semantic_scores' = CalculateSemanticScores(chunks, "fail", <<>>)
    /\ pc' = "scored"
    /\ UNCHANGED <<chunks, max_chunks, error, embed_cosines, walk_selected,
                   selected_chunks, final_docs>>
    /\ UNCHANGED embed_calls
    /\ UNCHANGED loadVars
    /\ UNCHANGED downloadVars
    /\ UNCHANGED serviceVars

\* the task is cancelled while it awaits get_embeddings: CancelledError is a
\* BaseException, which "except Exception" does not catch, and it leaves
\* calculate_semantic_scores, semantic_chunk_sampling and its caller
EmbeddingsCancelled ==
    /\ pc = "embedding"
    /\ embed_outcome' = "cancelled"
    /\ error' = "cancelled"
    /\ pc' = "raised"
    /\ UNCHANGED <<chunks, max_chunks, embed_cosines, semantic_scores,
                   walk_selected, selected_chunks, final_docs>>
    /\ UNCHANGED embed_calls
    /\ UNCHANGED loadVars
    /\ temp_file' = CleanUpFinally(loader, temp_download, temp_file)
    /\ UNCHANGED <<loader, temp_download>>
    /\ UNCHANGED serviceVars

\* get_embeddings returns one vector per text
EmbeddingsReturn ==
    /\ pc = "embedding"
    /\ \E cosines \in EmbedAnswers(Len(chunks)) :
           /\ embed_cosines' = cosines
           /\ semantic_scores' = CalculateSemanticScores(chunks, "ok", cosines)
    /\ embed_outcome' = "ok"
    /\ pc' = "scored"
    /\ UNCHANGED <<chunks, max_chunks, error, walk_selected, selected_chunks,
                   final_docs>>
    /\ UNCHANGED embed_calls
    /\ UNCHANGED loadVars
    /\ UNCHANGED downloadVars
    /\ UNCHANGED serviceVars

\* get_embeddings returns fewer vectors than it was sent texts: v vectors,
\* the first being that of the query.  Nothing in get_embeddings or in
\* calculate_semantic_scores compares the two lengths.
EmbeddingsReturnShort ==
    /\ pc = "embedding"
    /\ \E v \in 0..Len(chunks) : \E full \in EmbedAnswers(Len(chunks)) :
           LET outcome == IF v = 0 THEN "empty" ELSE "short"
               cosines == SubSeq(full, 1, v - 1)
           IN /\ embed_outcome' = outcome
              /\ embed_cosines' = cosines
              /\ semantic_scores' = CalculateSemanticScores(chunks, outcome, cosines)
    /\ pc' = "scored"
    /\ UNCHANGED <<chunks, max_chunks, error, walk_selected, selected_chunks,
                   final_docs>>
    /\ UNCHANGED embed_calls
    /\ UNCHANGED loadVars
    /\ UNCHANGED downloadVars
    /\ UNCHANGED serviceVars

\* the rest of semantic_chunk_sampling: grouping, the section walk, the
\* standalone chunks, the final selection and the return
SelectChunks ==
    /\ pc = "scored"
    /\ LET walk   == SelectFromSections(chunks, semantic_scores, max_chunks)
           filled == AddStandalone(walk, chunks, semantic_scores, max_chunks)
           final  == FinalSelection(filled, chunks, semantic_scores, max_chunks)
       IN /\ walk_selected' = walk
          /\ selected_chunks' = final
          /\ final_docs' = ReturnedDocs(chunks, semantic_scores, final)
    /\ pc' = "returned"
    /\ UNCHANGED <<chunks, max_chunks, error, embed_outcome, embed_cosines,
                   semantic_scores>>
    /\ UNCHANGED embed_calls
    /\ UNCHANGED loadVars
    /\ temp_file' = CleanUpFinally(loader, temp_download, temp_file)
    /\ UNCHANGED <<loader, temp_download>>
    /\ UNCHANGED serviceVars

\* ------------------------------------------------------------------------
\* main.py: ingest_document, its background cleanup, and query_documents
\* ------------------------------------------------------------------------

\* request r of requests, moved to position to
Moved(r, to) == [requests EXCEPT ![r].pc = to]

\* document_store[document_id] = {"status": "failed", ...} and the HTTPException
Failed(r) ==
    /\ document_store' = [document_store EXCEPT
                             ![requests[r].document_id] = StoreRecord("failed", 0)]
    /\ requests' = Moved(r, "done")

\* ingest_document up to the download: the status becomes "processing"
IngestStart ==
    /\ Len(requests) < MaxIngests
    /\ \E d \in DocIds :
           /\ requests' = Append(requests,
                  [document_id |-> d, pc |-> "download", collection_name |-> 0])
           /\ document_store' = [document_store EXCEPT ![d] = StoreRecord("processing", 0)]
    /\ UNCHANGED <<collections, next_collection, background, query_result>>
    /\ UNCHANGED engineVars

\* the download: written to a temporary file, or httpx.RequestError (400)
IngestDownload ==
    /\ \E r \in 1..Len(requests) :
           /\ requests[r].pc = "download"
           /\ \/ requests' = Moved(r, "load") /\ UNCHANGED document_store
              \/ Failed(r)
    /\ UNCHANGED <<collections, next_collection, background, query_result>>
    /\ UNCHANGED engineVars

\* load_pdf_ultra_fast: pages with text, or none and the ValueError (422)
IngestLoad ==
    /\ \E r \in 1..Len(requests) :
           /\ requests[r].pc = "load"
           /\ \/ requests' = Moved(r, "chain") /\ UNCHANGED document_store
              \/ Failed(r)
    /\ UNCHANGED <<collections, next_collection, background, query_result>>
    /\ UNCHANGED engineVars

\* get_ultra_fast_qa_chain, create_ultra_fast_vectorstore: a collection of a
\* new name is created and the chunks are uploaded to it; or the client or
\* the embeddings cannot be set up and the call raises (500)
IngestCreateStore ==
    /\ \E r \in 1..Len(requests) :
           /\ requests[r].pc = "chain"
           /\ \/ /\ requests' = [requests EXCEPT ![r].pc = "uploaded",
                                                 ![r].collection_name = next_collection]
                 /\ collections' = collections \cup {next_collection}
                 /\ next_collection' = next_collection + 1
                 /\ UNCHANGED document_store
              \/ /\ Failed(r)
                 /\ UNCHANGED <<collections, next_collection>>
    /\ UNCHANGED <<background, query_result>>
    /\ UNCHANGED engineVars

\* the rest of get_ultra_fast_qa_chain and of ingest_document: the status
\* becomes "completed" with the collection name, cleanup_fn is handed to
\* background_tasks and the answer is returned; or get_llm raises (500)
IngestComplete ==
    /\ \E r \in 1..Len(requests) :
           /\ requests[r].pc = "uploaded"
           /\ \/ /\ document_store' = [document_store EXCEPT
                        ![requests[r].document_id] =
                            StoreRecord("completed", requests[r].collection_name)]
                 /\ background' = [background EXCEPT
                        ![requests[r].collection_name] = "scheduled"]
                 /\ requests' = Moved(r, "done")
              \/ /\ Failed(r)
                 /\ UNCHANGED background
    /\ UNCHANGED <<collections, next_collection, query_result>>
    /\ UNCHANGED engineVars

\* the background task runs once the answer is sent: the wrapper of
\* get_cleanup_wrapper starts its daemon thread
RunBackgroundTask ==
    /\ \E n \in 1..MaxIngests :
           /\ background[n] = "scheduled"
           /\ background' = [background EXCEPT ![n] = "thread"]
    /\ UNCHANGED <<requests, document_store, collections, next_collection, query_result>>
    /\ UNCHANGED engineVars

\* the thread: cleanup_collection deletes the collection if it exists; an
\* exception of the client is swallowed and leaves it
CleanupCollection ==
    /\ \E n \in 1..MaxIngests :
           /\ background[n] = "thread"
           /\ background' = [background EXCEPT ![n] = "done"]
           /\ \/ collections' = collections \ {n}
              \/ collections' = collections
    /\ UNCHANGED <<requests, document_store, next_collection, query_result>>
    /\ UNCHANGED engineVars

\* how query_documents ends for a document id, given the store and the
\* collections at the call
QueryOutcome(doc_info, existing) ==
    IF doc_info.status = "absent" THEN "no_document"
    ELSE IF doc_info.status # "completed" THEN "not_ready"
    ELSE IF doc_info.collection_name = 0 THEN "collection_not_found"
    ELSE IF doc_info.collection_name \in existing THEN "answered"
    ELSE "query_failed"

\* query_documents(document_id)
QueryDocuments ==
    /\ \E d \in DocIds :
           query_result' = [query_result EXCEPT
                               ![d] = QueryOutcome(document_store[d], collections)]
    /\ UNCHANGED <<requests, document_store, collections, next_collection, background>>
    /\ UNCHANGED engineVars

ServiceNext ==
    \/ IngestStart
    \/ IngestDownload
    \/ IngestLoad
    \/ IngestCreateStore
    \/ IngestComplete
    \/ RunBackgroundTask
    \/ CleanupCollection
    \/ QueryDocuments

SampleNext ==
    \/ ReturnUnchanged
    \/ RequestEmbeddings
    \/ EmbeddingsFail
    \/ EmbeddingsCancelled
    \/ EmbeddingsReturn
    \/ SelectChunks

\* semantic_chunk_sampling with an embedding provider that may also answer
\* with fewer vectors than texts
ProviderNext ==
    \/ SampleNext
    \/ EmbeddingsReturnShort

LoadNext ==
    \/ LoadDocuments
    \/ SplitEmail
    \/ IdentifyDocSections
    \/ FallbackSplitDoc
    \/ SplitNextSection
    \/ FinishSplit
    \/ SampleNext

DownloadNext ==
    \/ Download
    \/ LoadNext

\* direct calls of semantic_chunk_sampling
SpecSample == InitSample /\ [][SampleNext]_vars

\* calls of load_document_semantic
SpecLoad == InitLoad /\ [][LoadNext]_vars

\* calls of load_document_semantic, load_pdf_semantic, load_docx_semantic
\* and load_email_semantic on a URL
SpecDownload == InitDownload /\ [][DownloadNext]_vars

\* load_and_split up to the choice of the splitter, on files of all tiers
SpecTiers == InitTiers /\ [][LoadDocuments]_vars

\* calls of semantic_chunk_sampling on sections of unlike mean score
SpecDiverse == InitDiverse /\ [][SampleNext]_vars

\* calls of semantic_chunk_sampling that exercise the scoring
SpecScore == InitScore /\ [][SampleNext]_vars

\* calls of semantic_chunk_sampling, the provider held to nothing
SpecProvider == InitProvider /\ [][ProviderNext]_vars

\* the requests to /api/v1/documents/ingest and /api/v1/documents/query
SpecService == InitService /\ [][ServiceNext]_vars

\* ------------------------------------------------------------------------
\* Properties of semantic_chunk_sampling (SpecSample)
\* ------------------------------------------------------------------------

\* the titles of the titled sections of a list of chunks
TitlesIn(list) == {SectionTitleOf(list[i]) : i \in 1..Len(list)} \ {<<>>}

\* how many chunks of a list carry the title t (<<>>: the untitled ones)
CountTitled(list, t) == Cardinality({i \in 1..Len(list) : SectionTitleOf(list[i]) = t})

\* per_section_quota = max(2, max_count // number_of_sections), as the spec states it
Quota(list, limit) == Max(2, limit \div Max(Cardinality(TitlesIn(list)), 1))

\* what the quotas and the untitled chunks can supply to a selection
Supply(list, limit) ==
    LET T == TitlesIn(list)
        f[S \in SUBSET T] ==
            IF S = {} THEN 0
            ELSE LET t == CHOOSE t \in S : TRUE
                 IN Min(CountTitled(list, t), Quota(list, limit)) + f[S \ {t}]
    IN f[T] + CountTitled(list, <<>>)

\* C1: Boundedness.  Whatever the passages, max_count >= 0 and the outcome of
\* the embedding call, the returned list has at most max_count passages.
C1_Bounded == pc = "returned" => Len(final_docs) <= max_chunks

\* C1 witness: the section walk overshot max_count and the final selection
\* cut the result back to it
C1_Witness ==
    /\ pc = "returned"
    /\ max_chunks >= 1
    /\ Len(walk_selected) > max_chunks
    /\ Len(final_docs) = max_chunks

\* C2: Identity path.  With len(passages) <= max_count the call returns the
\* input list itself, same passages in the same order, and scores nothing.
C2_Identity ==
    (pc = "returned" /\ Len(chunks) <= max_chunks) =>
        /\ final_docs = chunks
        /\ embed_outcome = "none"
        /\ semantic_scores = <<>>

\* C2 witness: a list of exactly max_count >= 2 passages, untitled before
\* titled, came back unchanged
C2_Witness ==
    /\ pc = "returned"
    /\ Len(chunks) = max_chunks
    /\ max_chunks >= 2
    /\ SectionTitleOf(chunks[1]) = <<>>
    /\ SectionTitleOf(chunks[2]) # <<>>
    /\ final_docs = chunks

\* the case of C5: at least 2 titled sections, each with at least the quota
C5_Case ==
    /\ pc = "returned"
    /\ max_chunks >= 1
    /\ Cardinality(TitlesIn(chunks)) >= 2
    /\ \A t \in TitlesIn(chunks) : CountTitled(chunks, t) >= Quota(chunks, max_chunks)

\* every section of the input has a passage in the result
C5_Covered == \A t \in TitlesIn(chunks) : CountTitled(final_docs, t) >= 1

\* C5 as stated: coverage under quota for every max_count >= 1
C5_CoverageAsStated == C5_Case => C5_Covered

\* C5 amended: coverage under quota holds when moreover
\* max_count >= 2 * number_of_sections - 1, so that the walk reaches the last
\* section before the selection reaches max_count
C5_Coverage ==
    (C5_Case /\ max_chunks >= 2 * Cardinality(TitlesIn(chunks)) - 1) => C5_Covered

\* C5 witness: the selection path, the quota of 2 overshooting max_count = 3
\* with two sections, and both sections still in the result
C5_Witness ==
    /\ C5_Case
    /\ max_chunks = 2 * Cardinality(TitlesIn(chunks)) - 1
    /\ Len(chunks) > max_chunks
    /\ Len(walk_selected) > max_chunks
    /\ C5_Covered

\* the case of C9: n titled sections and nothing untitled, max_count = n * q
\* with q >= 2, every section with at least q members, more than max_count passages
C9_Case ==
    LET n == Cardinality(TitlesIn(chunks))
    IN /\ pc = "returned"
       /\ n >= 1
       /\ CountTitled(chunks, <<>>) = 0
       /\ max_chunks % n = 0
       /\ max_chunks \div n >= 2
       /\ \A t \in TitlesIn(chunks) : CountTitled(chunks, t) >= max_chunks \div n
       /\ Len(chunks) > max_chunks

\* C9: Exact fill.  In that case the result has exactly max_count passages,
\* exactly max_count // n of every section.
C9_ExactFill ==
    C9_Case =>
        /\ Len(final_docs) = max_chunks
        /\ \A t \in TitlesIn(chunks) :
               CountTitled(final_docs, t) = max_chunks \div Cardinality(TitlesIn(chunks))

\* C9 witness: two sections, one larger than its quota, filled exactly
C9_Witness ==
    /\ C9_Case
    /\ Cardinality(TitlesIn(chunks)) = 2
    /\ \E t \in TitlesIn(chunks) : CountTitled(chunks, t) > max_chunks \div 2
    /\ Len(final_docs) = max_chunks

\* the case of C10: the embedding call failed on more than max_count passages
C10_Case ==
    /\ pc = "returned"
    /\ embed_outcome = "fail"
    /\ Len(chunks) > max_chunks

\* C10 as stated: exactly max_count passages for every distribution
C10_ExactAsStated == C10_Case => Len(final_docs) = max_chunks

\* C10 amended: the result has exactly min(max_count, S) passages, S being
\* the sum over the titled sections of min(section size, per_section_quota)
\* plus the number of untitled passages; so max_count whenever S >= max_count
C10_CountOnFailure ==
    C10_Case => Len(final_docs) = Min(max_chunks, Supply(chunks, max_chunks))

\* C10 witness: after a failed embedding call, untitled passages filled the
\* selection of the section walk up to max_count
C10_Witness ==
    /\ C10_Case
    /\ walk_selected # <<>>
    /\ Len(walk_selected) < max_chunks
    /\ Len(final_docs) = max_chunks
    /\ Supply(chunks, max_chunks) > max_chunks

\* ------------------------------------------------------------------------
\* Properties of the splitter and of load_document_semantic (SpecLoad)
\* ------------------------------------------------------------------------

\* the Passage Filter predicate of the spec: stripped text longer than 10
\* characters and more than 2 whitespace-delimited tokens
Admissible(doc) ==
    StrLen(Strip(doc.page_content)) > 10 /\ TokenCount(doc.page_content) > 2

\* the line is a boundary of the document type
IsBoundary(line, doc_type) == MatchesAnyPattern(Strip(line), doc_type)

\* no line of the document matches a boundary pattern of its type
NoBoundary(doc) ==
    \A i \in 1..Len(SplitLines(doc.page_content)) :
        ~IsBoundary(SplitLines(doc.page_content)[i], doc.metadata.doc_type)

RECURSIVE LinesOfSections(_)
\* the lines of the bodies of a sequence of sections, in order
LinesOfSections(secs) ==
    IF secs = <<>> THEN <<>>
    ELSE SplitLines(secs[1].text) \o LinesOfSections(Tail(secs))

\* C3: Admissibility at the splitting stage.  Every passage that
\* split_documents has collected, on every path, passes the Passage Filter.
C3_SplitterAdmissible ==
    \A i \in 1..Len(all_chunks) : Admissible(all_chunks[i])

\* C4: End-to-end admissibility.  Every passage load_document_semantic
\* returns, on the identity path and on the selection path, passes the
\* Passage Filter.
C4_EndToEndAdmissible ==
    (pc = "returned" /\ file_ext # "none") =>
        \A i \in 1..Len(final_docs) : Admissible(final_docs[i])

\* C4 witness: the splitter had returned an inadmissible passage, the
\* sampler took the selection path, and a list came back
C4_Witness ==
    /\ pc = "returned"
    /\ file_ext # "none"
    /\ embed_outcome # "none"
    /\ \E i \in 1..Len(all_chunks) : ~Admissible(all_chunks[i])
    /\ final_docs # <<>>

\* C6: Scenario D.  For a non-email document without any boundary line,
\* _identify_sections returns the empty sequence, and the passages of a file
\* made of such documents are all tagged fallback_split.
C6_NoBoundaryFallback ==
    /\ (pc = "sections" /\ NoBoundary(CurrentDoc)) => sections = <<>>
    /\ (/\ pc \in {"split", "sample", "embedding", "scored", "returned"}
        /\ file_ext # "none"
        /\ \A d \in 1..Len(raw_docs) :
               raw_docs[d].metadata.doc_type # "email" /\ NoBoundary(raw_docs[d]))
       => \A i \in 1..Len(all_chunks) :
              all_chunks[i].metadata.chunk_type = "fallback_split"

\* C7: No line is lost when a short section is skipped.  The bodies of the
\* emitted sections, one after the other, are the lines of the document from
\* its first line on: a section skipped for its length left its lines in the
\* next emitted one.
C7_NoLineLost ==
    pc = "sections" =>
        LET lines   == SplitLines(CurrentDoc.page_content)
            covered == LinesOfSections(sections)
        IN covered = SubSeq(lines, 1, Len(covered))

\* C8: Every boundary line starts a section titled by it, the first line of
\* the text included: a boundary line is the first line of its section and
\* its stripped text is the title of that section.
C8_BoundaryStartsSection ==
    pc = "sections" =>
        \A k \in 1..Len(sections) :
            LET body == SplitLines(sections[k].text)
                type == CurrentDoc.metadata.doc_type
            IN /\ IsBoundary(body[1], type) => sections[k].title = Strip(body[1])
               /\ \A j \in 2..Len(body) : ~IsBoundary(body[j], type)

\* ------------------------------------------------------------------------
\* Properties of calculate_semantic_scores (SpecScore)
\* ------------------------------------------------------------------------

\* the text of chunk i that goes to the embedding provider: the first 500
\* characters stripped, or the whole text stripped when those are < 50
SentText(i) ==
    LET head == Strip(Take(chunks[i].page_content, 500))
    IN IF StrLen(head) < 50 THEN Strip(chunks[i].page_content) ELSE head

\* C11: Embedding failure is recovered locally.  When the embedding call
\* raises, nothing is raised further, there is one score per passage, equal
\* to min(token_count / 100, 1.0) of the text sent for embedding (scores are
\* kept times 100), and the sampling goes on to its return.
C11_FailureRecovered ==
    embed_outcome = "fail" =>
        /\ pc \in {"scored", "returned"}
        /\ error = "none"
        /\ Len(semantic_scores) = Len(chunks)
        /\ \A i \in 1..Len(chunks) :
               semantic_scores[i] = IF TokenCount(SentText(i)) >= 100 THEN 100
                                    ELSE TokenCount(SentText(i))

\* C11 witness: the call failed, a chunk of more than 100 words got the
\* capped score, and the sampling returned a list
C11_Witness ==
    /\ embed_outcome = "fail"
    /\ pc = "returned"
    /\ final_docs # <<>>
    /\ \E i \in 1..Len(chunks) :
           TokenCount(SentText(i)) > 100 /\ semantic_scores[i] = 100

\* C12: Cancellation or timeout of the in-flight embedding call degrades to
\* the length-heuristic fallback.  Once the call has timed out (it raised) or
\* was cancelled, no failure leaves semantic_chunk_sampling or
\* load_document_semantic, the scores are the length scores, and the list
\* that comes back is bounded by max_chunks.
C12_NeverPropagated ==
    embed_outcome \in {"fail", "cancelled"} =>
        /\ pc \in {"scored", "returned"}
        /\ error = "none"
        /\ semantic_scores = FallbackScores(chunks)
        /\ pc = "returned" => Len(final_docs) <= max_chunks

\* C13: Empty or degenerate ingestion is an explicit error.  When the loader
\* yielded no document, or when the admissibility filter removed every
\* candidate passage, load_document_semantic has raised: it never reaches
\* the sampling and never returns a list.
C13_DegenerateRaises ==
    /\ (pc # "load" /\ LoadedDocs = <<>>) =>
           (pc = "raised" /\ error = "processing_failed" /\ final_docs = <<>>)
    /\ (pc \notin {"load", "sections"} /\ doc_idx > Len(raw_docs)
          /\ LoadedDocs # <<>> /\ SemanticFiltered(all_chunks) = <<>>)
           => ((pc = "split" \/ (pc = "raised" /\ error = "no_content"))
               /\ final_docs = <<>>)
    /\ pc = "returned" => (LoadedDocs # <<>> /\ SemanticFiltered(all_chunks) # <<>>)

\* C13 witness: the splitter returned passages, the filter removed them all,
\* and the call raised
C13_Witness ==
    /\ pc = "raised"
    /\ error = "no_content"
    /\ all_chunks # <<>>
    /\ SemanticFiltered(all_chunks) = <<>>

\* ------------------------------------------------------------------------
\* Diversity and order of the selection (SpecDiverse)
\* ------------------------------------------------------------------------

\* the positions of the chunks of section t
MembersOf(t) == {i \in 1..Len(chunks) : SectionTitleOf(chunks[i]) = t}

\* the sum of the scores of section t
ScoreSum(t) ==
    LET RECURSIVE Sum(_)
        Sum(i) == IF i > Len(chunks) THEN 0
                  ELSE (IF i \in MembersOf(t) THEN semantic_scores[i] ELSE 0)
                       + Sum(i + 1)
    IN Sum(1)

\* the mean score of section s is strictly higher than that of section l
MeanHigher(s, l) ==
    ScoreSum(s) * Cardinality(MembersOf(l)) > ScoreSum(l) * Cardinality(MembersOf(s))

\* the result holds a chunk of section t
InResult(t) == \E k \in 1..Len(selected_chunks) : selected_chunks[k] \in MembersOf(t)

\* a result of the selection path, max_chunks >= 1
C14_Case ==
    /\ pc = "returned"
    /\ embed_outcome \in {"ok", "fail"}
    /\ max_chunks >= 1
    /\ Len(chunks) > max_chunks

\* every section of the result has every section of higher mean beside it
C14_NoCrowdingOut ==
    \A s \in TitlesIn(chunks), l \in TitlesIn(chunks) :
        (MeanHigher(s, l) /\ InResult(l)) => InResult(s)

\* C14 as stated: on an input of more than max_count passages, a section of
\* lower mean score is in the result only with every section of strictly
\* higher mean score.
C14_DiversityAsStated == C14_Case => C14_NoCrowdingOut

\* C14: Diversity guarantee, for the selections that the final truncation
\* leaves alone.  When the section walk and the standalone fill selected at
\* most max_count passages, a section of lower mean score is in the result
\* only with every section of strictly higher mean score.
C14_Diversity ==
    (C14_Case /\ Len(walk_selected) <= max_chunks) => C14_NoCrowdingOut

\* C14 witness: two sections of unlike mean, both in an untruncated result
C14_Witness ==
    /\ C14_Case
    /\ Len(walk_selected) <= max_chunks
    /\ \E s \in TitlesIn(chunks), l \in TitlesIn(chunks) :
           MeanHigher(s, l) /\ InResult(l) /\ InResult(s)

\* the first position of a chunk of section t
FirstMet(t) == CHOOSE i \in MembersOf(t) : \A j \in MembersOf(t) : i <= j

\* chunk a stands rightly before chunk b in the section walk's selection:
\* within a section by descending score, equal scores in input order;
\* across sections by descending mean, equal means in first-met order
WalkOrdered(a, b) ==
    LET ta == SectionTitleOf(chunks[a])
        tb == SectionTitleOf(chunks[b])
    IN IF ta = tb
       THEN \/ semantic_scores[a] > semantic_scores[b]
            \/ semantic_scores[a] = semantic_scores[b] /\ a < b
       ELSE \/ MeanHigher(ta, tb)
            \/ ~MeanHigher(tb, ta) /\ FirstMet(ta) < FirstMet(tb)

ChunkTypes ==
    {"complete_section", "section_part", "fallback_split", "email_headers",
     "email_body"}

\* C15: Metadata shape.  Every passage split_documents has collected, on
\* every path, carries the key section_title and a chunk_type of the five
\* known values, and every section_part passage carries chunk_index.
C15_MetadataShape ==
    \A i \in 1..Len(all_chunks) :
        /\ all_chunks[i].metadata.has_title
        /\ all_chunks[i].metadata.chunk_type \in ChunkTypes
        /\ all_chunks[i].metadata.chunk_type = "section_part"
               => all_chunks[i].metadata.chunk_index >= 0

\* the passages that the step from the current state appends to all_chunks
NewChunks == SubSeq(all_chunks', Len(all_chunks) + 1, Len(all_chunks'))

\* _split_section is about to run on a section longer than 1.5 x chunk_size
AtLargeSection ==
    /\ pc = "sections"
    /\ sec_idx <= Len(sections)
    /\ 2 * StrLen(sections[sec_idx].text) > 3 * chunk_size

\* C16: Sequential chunk_index.  The passages _split_section returns for a
\* section longer than 1.5 x chunk_size carry the chunk_index values 0, 1,
\* ..., k-1 in order, k being the number of passages returned, also when
\* sub-chunks were dropped by the filter.
C16_SequentialIndex ==
    [][AtLargeSection =>
          \A k \in 1..Len(NewChunks) : NewChunks[k].metadata.chunk_index = k - 1]_vars

\* C17: Small-section path of _split_section.  For a body of at most
\* 1.5 x chunk_size characters exactly one passage is returned, tagged
\* complete_section, with the text title + "\n\n" + body, or body alone
\* under an empty title; for a longer body no passage is tagged
\* complete_section.
C17_SmallSection ==
    [][(pc = "sections" /\ sec_idx <= Len(sections)) =>
          LET title == sections[sec_idx].title
              body  == sections[sec_idx].text
          IN IF 2 * StrLen(body) <= 3 * chunk_size
             THEN /\ Len(NewChunks) = 1
                  /\ NewChunks[1].metadata.chunk_type = "complete_section"
                  /\ NewChunks[1].page_content =
                         IF title = <<>> THEN body
                         ELSE Cat(Cat(title, << <<"\n", 2>> >>), body)
             ELSE \A k \in 1..Len(NewChunks) :
                      NewChunks[k].metadata.chunk_type # "complete_section"]_vars

\* C17 witness: a titled section and an untitled section of exactly
\* 1.5 x chunk_size characters came back whole
C17_Witness ==
    /\ \E i \in 1..Len(all_chunks) :
           /\ all_chunks[i].metadata.chunk_type = "complete_section"
           /\ SectionTitleOf(all_chunks[i]) # <<>>
    /\ \E i \in 1..Len(all_chunks) :
           /\ all_chunks[i].metadata.chunk_type = "complete_section"
           /\ SectionTitleOf(all_chunks[i]) = <<>>
           /\ 2 * StrLen(all_chunks[i].page_content) = 3 * chunk_size

\* line i of lines is a recognised header line: one of the first 20 lines,
\* with a colon behind one of the six keys
IsHeaderLine(lines, i) ==
    /\ i <= 20
    /\ Contains(lines[i], ":")
    /\ LowerChars(Strip(BeforeFirst(lines[i], ":"))) \in HeaderKeys

\* _split_email_document is about to run, on a body it keeps in one passage
AtEmail ==
    /\ pc = "split"
    /\ doc_idx <= Len(raw_docs)
    /\ CurrentDoc.metadata.doc_type = "email"
    /\ ~EmailBodyIsSplit(CurrentDoc, chunk_size)

\* C18: Email body completeness.  For a document tagged email no section
\* is identified by pattern, and every line of the text that is not a
\* recognised header line (blank lines apart) is a line of an email_body
\* passage: no remaining text is dropped.
C18_EmailBodyComplete ==
    [][AtEmail =>
          LET lines == SplitLines(CurrentDoc.page_content)
          IN /\ pc' = "split"
             /\ \A k \in 1..Len(NewChunks) :
                    NewChunks[k].metadata.chunk_type \in {"email_headers", "email_body"}
             /\ \A i \in 1..Len(lines) :
                    (~IsHeaderLine(lines, i) /\ Strip(lines[i]) # <<>>) =>
                        \E k \in 1..Len(NewChunks) :
                            /\ NewChunks[k].metadata.chunk_type = "email_body"
                            /\ \E j \in 1..Len(SplitLines(NewChunks[k].page_content)) :
                                   SplitLines(NewChunks[k].page_content)[j] = lines[i]]_vars

\* ------------------------------------------------------------------------
\* Properties of get_smart_splitter (SpecTiers)
\* ------------------------------------------------------------------------

DocTypes == {"insurance", "email", "general"}

\* the sizes get_smart_splitter gives for the lengths of TierLengths
TierSizes == {GetSmartSplitter(n, t) : n \in TierLengths, t \in DocTypes}

\* C19: Monotonic size tiers.  The sizes chosen for the total length of the
\* loaded documents are (1500, 200) up to 5000 characters and (3500, 500)
\* above 100000, there are six tiers, a length not smaller gets a chunk_size
\* and a chunk_overlap not smaller, and the doc_type changes nothing.
C19_MonotonicTiers ==
    pc = "split" =>
        LET n == TotalLength(raw_docs)
        IN /\ n <= 5000 => (chunk_size = 1500 /\ chunk_overlap = 200)
           /\ n > 100000 => (chunk_size = 3500 /\ chunk_overlap = 500)
           /\ Cardinality(TierSizes) = 6
           /\ \A m \in TierLengths, t \in DocTypes :
                  LET other == GetSmartSplitter(m, t)
                  IN /\ n <= m => /\ chunk_size <= other.chunk_size
                                  /\ chunk_overlap <= other.chunk_overlap
                     /\ m <= n => /\ other.chunk_size <= chunk_size
                                  /\ other.chunk_overlap <= chunk_overlap

\* C19 witness: an email document of more than 100000 characters got the
\* largest sizes
C19_Witness ==
    /\ pc = "split"
    /\ TotalLength(raw_docs) > 100000
    /\ raw_docs[1].metadata.doc_type = "email"
    /\ chunk_size = 3500

\* ------------------------------------------------------------------------
\* The embedding call of the sampler (SpecScore, SpecSample, SpecProvider)
\* ------------------------------------------------------------------------

\* C22: One embedding batch before scoring.  A call with more passages than
\* max_count calls the provider exactly once, with the query first and then
\* the text of every passage in input order; until that call has returned or
\* failed nothing is scored and nothing selected; a call on the identity path
\* never calls the provider.
C22_OneBatchBeforeScoring ==
    /\ Len(embed_calls) <= 1
    /\ pc \notin {"embedding", "scored", "returned", "raised"} => embed_calls = <<>>
    /\ (pc = "returned" /\ Len(chunks) <= max_chunks) => embed_calls = <<>>
    /\ (pc \in {"embedding", "scored"} \/ (pc = "returned" /\ Len(chunks) > max_chunks))
           => /\ Len(embed_calls) = 1
              /\ Len(embed_calls[1]) = Len(chunks) + 1
              /\ embed_calls[1][1] = DefaultQuery
              /\ \A i \in 1..Len(chunks) : embed_calls[1][i + 1] = SentText(i)
    /\ pc \in {"sample", "embedding"}
           => /\ embed_outcome = "none"
              /\ semantic_scores = <<>>
              /\ walk_selected = <<>> /\ selected_chunks = <<>> /\ final_docs = <<>>
    /\ pc = "scored" => embed_outcome \in {"ok", "fail", "short", "empty"}

\* C22 witness: two passages of unlike texts, one of them cut to its first
\* 500 characters, were sent in one batch, scored and sampled
C22_Witness ==
    /\ pc = "returned"
    /\ Len(chunks) = 2
    /\ Len(embed_calls) = 1
    /\ embed_calls[1][2] # embed_calls[1][3]
    /\ \E i \in 1..2 : embed_calls[1][i + 1] # Strip(chunks[i].page_content)
    /\ final_docs # <<>>

\* C23: Cosine scoring on success.  When the provider has answered with one
\* vector per text, the score of each passage is the cosine similarity of
\* its vector with the query vector, negative values clamped to 0; the
\* length scores are used only when the provider call failed.
C23_CosineOnSuccess ==
    (embed_outcome = "ok" /\ pc \in {"scored", "returned"}) =>
        /\ Len(semantic_scores) = Len(chunks)
        /\ \A i \in 1..Len(chunks) :
               semantic_scores[i] = IF embed_cosines[i] < 0 THEN 0 ELSE embed_cosines[i]

\* ------------------------------------------------------------------------
\* The selection of the sampler (SpecSample)
\* ------------------------------------------------------------------------

\* the positions in chunks of the passages of the result
Selected == {selected_chunks[k] : k \in 1..Len(selected_chunks)}

\* how many passages of the result belong to section t
SelectedOf(t) == Cardinality({k \in 1..Len(selected_chunks) : selected_chunks[k] \in MembersOf(t)})

\* C24: Locally highest-scoring selection.  In a result of the selection
\* path, a passage of a titled section is there only with every passage of
\* that section that scored strictly higher, and no section has more than
\* per_section_quota = max(2, max_count // number_of_sections) passages in it.
C24_LocalBest ==
    (pc = "returned" /\ embed_outcome \in {"ok", "fail"}) =>
        /\ \A p \in 1..Len(chunks), q \in 1..Len(chunks) :
               (/\ SectionTitleOf(chunks[p]) # <<>>
                /\ SectionTitleOf(chunks[p]) = SectionTitleOf(chunks[q])
                /\ semantic_scores[q] > semantic_scores[p]
                /\ p \in Selected)
               => q \in Selected
        /\ \A t \in TitlesIn(chunks) : SelectedOf(t) <= Quota(chunks, max_chunks)

\* C24 witness: a section larger than the quota gave exactly the quota, and
\* a passage of it was left out for a later one that scored higher
C24_Witness ==
    /\ pc = "returned"
    /\ embed_outcome \in {"ok", "fail"}
    /\ \E t \in TitlesIn(chunks) :
           /\ CountTitled(chunks, t) > Quota(chunks, max_chunks)
           /\ SelectedOf(t) = Quota(chunks, max_chunks)
           /\ \E p \in MembersOf(t), q \in MembersOf(t) :
                  /\ p < q
                  /\ semantic_scores[q] > semantic_scores[p]
                  /\ p \notin Selected /\ q \in Selected

\* C25: Standalone fill.  Untitled passages enter the selection only when
\* the section walk ended with fewer than max_count passages: then exactly
\* min(number of untitled passages, max_count - size of the walk's selection)
\* of them follow the walk's selection, highest score first; when the walk
\* reached max_count no untitled passage is in the result.
C25_StandaloneFill ==
    (pc = "returned" /\ embed_outcome \in {"ok", "fail"}) =>
        LET standalone == MembersOf(<<>>)
            walked     == Len(walk_selected)
            added      == Selected \cap standalone
        IN /\ \A k \in 1..walked : walk_selected[k] \notin standalone
           /\ walked >= max_chunks => added = {}
           /\ walked < max_chunks =>
                  /\ Cardinality(added) = Min(Cardinality(standalone), max_chunks - walked)
                  /\ SubSeq(selected_chunks, 1, walked) = walk_selected
                  /\ \A k \in (walked + 1)..Len(selected_chunks) :
                         /\ selected_chunks[k] \in standalone
                         /\ \A j \in (k + 1)..Len(selected_chunks) :
                                semantic_scores[selected_chunks[k]]
                                    >= semantic_scores[selected_chunks[j]]
                  /\ \A a \in added, b \in standalone \ added :
                         semantic_scores[a] >= semantic_scores[b]

\* C25 witness: the walk left room for one untitled passage of two, and the
\* later, higher-scoring one was taken
C25_Witness ==
    /\ pc = "returned"
    /\ embed_outcome \in {"ok", "fail"}
    /\ walk_selected # <<>>
    /\ Len(walk_selected) < max_chunks
    /\ \E a \in Selected, b \in MembersOf(<<>>) \ Selected :
           /\ a \in MembersOf(<<>>)
           /\ b < a
           /\ semantic_scores[a] > semantic_scores[b]

\* C26: Frame of semantic_chunk_sampling.  No step of a call changes the
\* caller's list, its passages, their text or their metadata, and the
\* passages that come back are those of the list as they were, no score
\* stored on them.
C26_Frame ==
    [][(pc \in {"sample", "embedding", "scored"}) =>
          (/\ chunks' = chunks
           /\ pc' = "returned" =>
                  (/\ Len(final_docs') = Len(selected_chunks')
                   /\ \A k \in 1..Len(final_docs') :
                          final_docs'[k] = chunks[selected_chunks'[k]]))
      ]_vars

\* C26 witness: passages of unlike scores were selected and came back with
\* the metadata they had
C26_Witness ==
    /\ pc = "returned"
    /\ embed_outcome \in {"ok", "fail"}
    /\ Len(final_docs) >= 2
    /\ semantic_scores[selected_chunks[1]] > semantic_scores[selected_chunks[2]]
    /\ \A k \in 1..Len(final_docs) : final_docs[k].metadata.chunk_index = -1

\* how many times the passage d stands in a list
CountOf(list, d) == Cardinality({i \in 1..Len(list) : list[i] = d})

\* C27: The result is a subset of the input without repetition.  Every
\* returned passage is an input passage, and no passage stands in the result
\* more often than it stands in the input, whether the result comes from the
\* identity path, the section walk, the standalone fill or the final cut.
C27_SubsetNoRepetition ==
    pc = "returned" =>
        /\ \A k \in 1..Len(final_docs) :
               /\ CountOf(chunks, final_docs[k]) >= 1
               /\ CountOf(final_docs, final_docs[k]) <= CountOf(chunks, final_docs[k])
        /\ Len(final_docs) <= Len(chunks)

\* C27 witness: a passage that stands twice in the input stands twice in a
\* result made by the section walk and the standalone fill
C27_Witness ==
    /\ pc = "returned"
    /\ embed_outcome \in {"ok", "fail"}
    /\ walk_selected # <<>>
    /\ Len(selected_chunks) > Len(walk_selected)
    /\ \E k \in 1..Len(final_docs) :
           /\ CountOf(chunks, final_docs[k]) = 2
           /\ CountOf(final_docs, final_docs[k]) = 2

\* C28: Non-empty sample.  Given more than max_count passages and
\* max_count >= 1, semantic_chunk_sampling returns at least one passage,
\* whether the provider answered with one vector per text, with fewer
\* vectors than texts, or failed: every input passage has a score.
C28_NonEmptySample ==
    (pc = "returned" /\ Len(chunks) > max_chunks /\ max_chunks >= 1) =>
        /\ Len(semantic_scores) = Len(chunks)
        /\ final_docs # <<>>

\* ------------------------------------------------------------------------
\* The temporary file of a download (SpecDownload)
\* ------------------------------------------------------------------------

\* C29: Temporary download cleanup.  Once a loader has written its download
\* to a temporary file, that file is deleted by the time the loader returns
\* or raises, on every way out and in each of the four loaders.
C29_TempFileDeleted ==
    (pc \in {"returned", "raised"} /\ temp_download) => temp_file = "deleted"

\* ------------------------------------------------------------------------
\* Ingestion and query of a document (SpecService)
\* ------------------------------------------------------------------------

\* C30: A completed document stays queryable.  Whenever ingest_document has
\* recorded "completed" with a collection name for a document id, that
\* collection exists at every later query_documents call for the id: no
\* query of a completed document finds its collection gone.
C30_CompletedStaysQueryable ==
    \A d \in DocIds : query_result[d] # "query_failed"

====
